---- MODULE Spec2Model ----
(***************************************************************************)
(* A model of the Leafish protocol engine (protocol/src/protocol/mod.rs):  *)
(* the VarInt codec, the framing done by Conn::write_packet and            *)
(* Conn::read_raw_packet_from / Conn::read_packet, the connection handle   *)
(* (struct Conn, its Clone, its transforms and its state) and the send     *)
(* lock that serialises concurrent writers.                                *)
(*                                                                         *)
(* Bytes are the integers 0..255, byte strings are sequences of bytes.     *)
(* Three specifications share the variables:                               *)
(*   SpecFrame  frames written by write_packet or crafted by the peer are  *)
(*              read back by read_raw_packet_from / read_packet;           *)
(*   SpecConn   handles are created, cloned, transformed and advanced;     *)
(*   SpecSend   clones of one connection run write_packet concurrently,    *)
(*              one socket write at a time.                                *)
(***************************************************************************)
EXTENDS Integers, Sequences, FiniteSets, TLC

VARIABLES
    debug_build,   \* TRUE: dev profile (overflow-checks, debug-assertions)
    \* ---- framing harness (SpecFrame)
    mode,          \* "loop": the wire carries what write_packet wrote; "peer": crafted frames
    threshold,     \* the session's compression_threshold, used by writer and reader
    wire,          \* bytes written and not yet read
    pending,       \* the frames lying in wire, oldest first (what was written)
    last,          \* the most recent read: the frame it was given and its result
    \* ---- connection handles (SpecConn, SpecSend)
    current_protocol_version,  \* the static CURRENT_PROTOCOL_VERSION
    conn,          \* handle -> struct Conn, or NoConn
    ciphers,       \* heap of Arc<RwLock<Option<Aes128Cfb>>> cells
    locks,         \* heap of Arc<Mutex<..>> send locks: the handle holding each, or 0
    sockets,       \* per TcpStream: what reached the socket
    pc,            \* handle -> where its thread is
    local          \* handle -> the locals of the call it is in

frameVars == <<mode, threshold, wire, pending, last>>
connVars  == <<current_protocol_version, conn, ciphers, locks, sockets, pc, local>>
vars      == <<debug_build, mode, threshold, wire, pending, last,
               current_protocol_version, conn, ciphers, locks, sockets, pc, local>>

----------------------------------------------------------------------------
(* Integer widths.  The model checker's integers are 32-bit signed, so an   *)
(* i32 is itself, a u32 is carried as the i32 with the same bits (division  *)
(* by a power of two is floor division, i.e. the shift of the bits), and a  *)
(* 64-bit value is carried as its eight base-256 digits.                    *)

Pow2(n) == 2 ^ n

\* `(x as usize) > n` for an i32 x and 0 <= n < 2^31: the cast sign-extends,
\* so every negative x is a length above n
UsizeExceeds(x, n) == x < 0 \/ x > n

\* F(v) with v evaluated once: the model checker evaluates a LET definition
\* anew at each use, a bound variable once
Let(v, F(_)) == CHOOSE y \in {F(w) : w \in {v}} : TRUE

\* n copies of byte b
RECURSIVE Rep(_, _)
Rep(b, n) == IF n = 0 THEN <<>> ELSE <<b>> \o Rep(b, n - 1)

----------------------------------------------------------------------------
(* VarInt *)

\* (mutant) the loop stops when the bits above the low eight are clear
RECURSIVE VarIntWriteLoopWide(_)
VarIntWriteLoopWide(val) ==
    IF val < 256
    THEN <<val>>
    ELSE <<(val % 128) + 128>> \o VarIntWriteLoopWide(val \div 128)

\* VarInt::write_to on a value whose u32 form is below 2^31: while bits above
\* the low seven are set, write the low seven with the continuation bit
RECURSIVE VarIntWriteLoop(_)
VarIntWriteLoop(val) ==
    IF val < 128
    THEN <<val>>
    ELSE <<(val % 128) + 128>> \o VarIntWriteLoop(val \div 128)

\* (mutant) the sign bit of a negative value is not written
VarIntWriteNoSign(x) ==
    IF x >= 0
    THEN VarIntWriteLoop(x)
    ELSE << (x % 128) + 128,
            ((x \div Pow2(7)) % 128) + 128,
            ((x \div Pow2(14)) % 128) + 128,
            ((x \div Pow2(21)) % 128) + 128,
            (x \div Pow2(28)) % 8 >>

\* VarInt::write_to: `self.0 as u32` of a negative i32 has bit 31 set, so the
\* loop writes four groups of seven bits and then the top four bits
VarIntWrite(x) ==
    IF x >= 0
    THEN VarIntWriteLoop(x)
    ELSE << (x % 128) + 128,
            ((x \div Pow2(7)) % 128) + 128,
            ((x \div Pow2(14)) % 128) + 128,
            ((x \div Pow2(21)) % 128) + 128,
            (x \div Pow2(28)) % 16 >>

\* A result of a read from a byte stream s: kind "Ok" with the value and what
\* is left of the stream, or the error kind.
ReadOk(v, rest)  == [kind |-> "Ok", msg |-> "", val |-> v, rest |-> rest]
ReadErr(k, m, rest) == [kind |-> k, msg |-> m, val |-> 0, rest |-> rest]

\* VarInt::read_from; val is `val as i32` of the code's u32.  The fifth byte
\* is shifted by 28, which keeps its low four bits (bit 31 is the sign).  The
\* sixth byte makes size 6 and is refused, but only after
\* `(b & PART) << (size * 7)` was evaluated with a shift of 35 on a u32: with
\* overflow checks that shift panics, without them it wraps.
RECURSIVE VarIntReadLoop(_, _, _)
VarIntReadLoop(s, size, val) ==
    IF s = <<>>
    THEN ReadErr("IOError", "UnexpectedEof", s)
    ELSE LET b == Head(s)
         IN IF size >= 5
            THEN IF debug_build
                 THEN ReadErr("panic", "attempt to shift left with overflow", Tail(s))
                 ELSE ReadErr("Err", "VarInt too big", Tail(s))
            ELSE LET top == IF (b % 16) >= 8 THEN (b % 16) - 16 ELSE b % 16
                     v == IF size < 4
                          THEN val + (b % 128) * Pow2(size * 7)
                          ELSE val + top * Pow2(28)
                 IN IF b < 128
                    THEN ReadOk(v, Tail(s))
                    ELSE VarIntReadLoop(Tail(s), size + 1, v)

VarIntRead(s) == Let(s, LAMBDA t : VarIntReadLoop(t, 0, 0))

----------------------------------------------------------------------------
(* zlib (flate2), an external codec: the model keeps what the framing relies *)
(* on. The deflated form is another byte string than the input (a header,   *)
(* the payload, a checksum over the payload), inflating it gives the input  *)
(* back, and a stream whose header or checksum is wrong fails to inflate.   *)

RECURSIVE SumBytes(_)
SumBytes(s) == IF s = <<>> THEN 1 ELSE (Head(s) + SumBytes(Tail(s))) % 251

\* ZlibEncoder::new(Cursor::new(buf), Compression::default()).read_to_end(&mut new)
ZlibEncode(buf) == <<120>> \o buf \o <<SumBytes(buf)>>

\* ZlibDecoder::new(buf).read_to_end(&mut new)
ZlibDecode(z) ==
    IF /\ Len(z) >= 2
       /\ z[1] = 120
       /\ z[Len(z)] = SumBytes(SubSeq(z, 2, Len(z) - 1))
    THEN [ok |-> TRUE, data |-> SubSeq(z, 2, Len(z) - 1)]
    ELSE [ok |-> FALSE, data |-> <<>>]

----------------------------------------------------------------------------
(* Field codecs used by the packets of the handshake and status exchange *)

\* Big-endian unsigned value of a byte string
RECURSIVE BigEndian(_)
BigEndian(s) ==
    IF s = <<>> THEN 0 ELSE BigEndian(SubSeq(s, 1, Len(s) - 1)) * 256 + s[Len(s)]

\* buf.read_{u16,i64}::<BigEndian>(): n bytes or UnexpectedEof.  A value of
\* up to three bytes is the number, a wider one its base-256 digits.
ReadFixed(s, n) ==
    IF Len(s) < n
    THEN ReadErr("IOError", "UnexpectedEof", <<>>)
    ELSE ReadOk(IF n <= 3 THEN BigEndian(SubSeq(s, 1, n)) ELSE SubSeq(s, 1, n),
                SubSeq(s, n + 1, Len(s)))

\* String::from_utf8: one- to four-byte forms, each continuation byte in
\* 0x80..0xBF (overlong and surrogate forms are not told apart here).
\* Utf8Width is the length of the form a byte starts, 0 for a byte that
\* starts none; the bytes are valid when every form is whole and every
\* continuation byte belongs to one.
Utf8Width(b) ==
    IF b < 128 THEN 1
    ELSE IF b >= 194 /\ b <= 223 THEN 2
    ELSE IF b >= 224 /\ b <= 239 THEN 3
    ELSE IF b >= 240 /\ b <= 244 THEN 4
    ELSE 0

Utf8Continuation(b) == b >= 128 /\ b <= 191

Utf8Valid(s) ==
    \A i \in DOMAIN s :
        IF Utf8Continuation(s[i])
        THEN \E j \in {k \in 1..3 : k < i} :
                /\ Utf8Width(s[i - j]) > j
                /\ \A m \in 1..(j - 1) : Utf8Continuation(s[i - m])
        ELSE /\ Utf8Width(s[i]) > 0
             /\ i + Utf8Width(s[i]) - 1 <= Len(s)
             /\ \A m \in 1..(Utf8Width(s[i]) - 1) : Utf8Continuation(s[i + m])

\* String::read_from: the VarInt length, two debug assertions, then
\* take(len as u64).read_to_end, which stops early at the end of the input
\* without an error, then String::from_utf8(..).unwrap()
StringRead(s) ==
    Let(VarIntRead(s), LAMBDA l :
        IF l.kind # "Ok" THEN l
        ELSE IF debug_build /\ l.val < 0
        THEN ReadErr("panic", "Negative string length", l.rest)
        ELSE IF debug_build /\ l.val > 65536
        THEN ReadErr("panic", "String length too big", l.rest)
        ELSE LET n == IF UsizeExceeds(l.val, Len(l.rest)) THEN Len(l.rest) ELSE l.val
                 bytes == SubSeq(l.rest, 1, n)
             IN IF Utf8Valid(bytes)
                THEN ReadOk(bytes, SubSeq(l.rest, n + 1, Len(l.rest)))
                ELSE ReadErr("panic", "called Result::unwrap() on an Err value: FromUtf8Error",
                             SubSeq(l.rest, n + 1, Len(l.rest))))

\* (mutant) an Option<T> that writes a presence byte first
OptionWriteTagged(v) ==
    IF v = {} THEN <<0>> ELSE <<1>> \o VarIntWrite(CHOOSE x \in v : TRUE)

\* Option<T>::write_to, T = VarInt: the value's encoding for Some, nothing
\* for None.  An Option is the empty set or the set of its one value.
OptionWrite(v) ==
    IF v = {} THEN <<>> ELSE VarIntWrite(CHOOSE x \in v : TRUE)

\* Option<T>::read_from, T = VarInt: `Ok(Some(T::read_from(buf)?))`
OptionRead(s) ==
    Let(VarIntRead(s), LAMBDA r :
        IF r.kind = "Ok" THEN ReadOk({r.val}, r.rest) ELSE r)

\* The tag-tree codec (module nbt, outside the modelled files), by its
\* contract: a string is a big-endian u16 length and that many bytes; a tag
\* is taken here as a compound of unnamed byte entries, each written as type
\* 1, an empty name and the byte, and closed by a 0
NbtWriteString(name) == <<Len(name) \div 256, Len(name) % 256>> \o name

NbtReadString(s) ==
    Let(ReadFixed(s, 2), LAMBDA l :
        IF l.kind # "Ok" THEN l
        ELSE IF Len(l.rest) < l.val THEN ReadErr("IOError", "UnexpectedEof", <<>>)
        ELSE ReadOk(SubSeq(l.rest, 1, l.val), SubSeq(l.rest, l.val + 1, Len(l.rest))))

RECURSIVE NbtTagWrite(_)
NbtTagWrite(tag) ==
    IF tag = <<>> THEN <<0>>
    ELSE <<1, 0, 0, Head(tag)>> \o NbtTagWrite(Tail(tag))

RECURSIVE NbtTagRead(_, _)
NbtTagRead(s, acc) ==
    IF s = <<>> THEN ReadErr("IOError", "UnexpectedEof", <<>>)
    ELSE IF s[1] = 0 THEN ReadOk(acc, Tail(s))
    ELSE IF s[1] # 1 THEN ReadErr("Err", "invalid tag", Tail(s))
    ELSE IF Len(s) < 4 THEN ReadErr("IOError", "UnexpectedEof", <<>>)
    ELSE IF s[2] # 0 \/ s[3] # 0 THEN ReadErr("Err", "invalid tag", Tail(s))
    ELSE NbtTagRead(SubSeq(s, 5, Len(s)), Append(acc, s[4]))

\* Option<nbt::NamedTag>::write_to: 10, the name and the tag for Some, a
\* single 0 for None
OptionNamedTagWrite(v) ==
    IF v = {} THEN <<0>>
    ELSE Let(CHOOSE x \in v : TRUE, LAMBDA val :
             <<10>> \o NbtWriteString(val.name) \o NbtTagWrite(val.tag))

\* Option<nbt::NamedTag>::read_from: one byte; None when it is 0, else the
\* name and the tag
OptionNamedTagRead(s) ==
    IF s = <<>> THEN ReadErr("IOError", "UnexpectedEof", <<>>)
    ELSE IF s[1] = 0 THEN ReadOk({}, Tail(s))
    ELSE Let(NbtReadString(Tail(s)), LAMBDA n :
             IF n.kind # "Ok" THEN n
             ELSE Let(NbtTagRead(n.rest, <<>>), LAMBDA t :
                      IF t.kind # "Ok" THEN t
                      ELSE ReadOk({[name |-> n.val, tag |-> t.val]}, t.rest)))

\* Serializable::read_from of a field type
FieldRead(type, s) ==
    CASE type = "VarInt" -> VarIntRead(s)
      [] type = "String" -> StringRead(s)
      [] type = "u16"    -> ReadFixed(s, 2)
      [] type = "i64"    -> ReadFixed(s, 8)
      [] type = "()"     -> ReadOk(<<>>, s)
      [] type = "Option<VarInt>" -> OptionRead(s)

----------------------------------------------------------------------------
(* The packet catalog of the handshake and status exchange.  The tables    *)
(* live in protocol/packet.rs and protocol/versions/, outside the modelled *)
(* files; the two macros that turn them into code are modelled below.      *)

\* wire id -> internal id (the shape's name), per state and direction; the
\* same in every protocol version for these two states
IdTable(state, dir) ==
    CASE state = "Handshaking" /\ dir = "Serverbound" -> (0 :> "Handshake")
      [] state = "Status" /\ dir = "Serverbound" ->
             (0 :> "StatusRequest") @@ (1 :> "StatusPing")
      [] state = "Status" /\ dir = "Clientbound" ->
             (0 :> "StatusResponse") @@ (1 :> "StatusPong")
      [] OTHER -> <<>>

\* internal id -> the field types in declared order
Shapes(state, dir) ==
    CASE state = "Handshaking" /\ dir = "Serverbound" ->
             ("Handshake" :> <<"VarInt", "String", "u16", "VarInt">>)
      [] state = "Status" /\ dir = "Serverbound" ->
             ("StatusRequest" :> <<"()">>) @@ ("StatusPing" :> <<"i64">>)
      [] state = "Status" /\ dir = "Clientbound" ->
             ("StatusResponse" :> <<"String">>) @@ ("StatusPong" :> <<"i64">>)
      [] OTHER -> <<>>

\* The fields of a shape read one after the other; the first failure ends it
RECURSIVE FieldsRead(_, _, _)
FieldsRead(types, s, acc) ==
    IF types = <<>> THEN ReadOk(acc, s)
    ELSE Let(FieldRead(Head(types), s), LAMBDA r :
             IF r.kind # "Ok" THEN r
             ELSE FieldsRead(Tail(types), r.rest, Append(acc, r.val)))

\* packet_by_id: translate the wire id (a panic when the table has no entry),
\* then read the shape's fields; Ok(None) when no shape has that internal id
PacketById(state, dir, id, s) ==
    IF id \notin DOMAIN IdTable(state, dir)
    THEN [kind |-> "panic", msg |-> "bad packet id", name |-> "", val |-> <<>>, rest |-> s]
    ELSE LET name == IdTable(state, dir)[id]
         IN IF name \notin DOMAIN Shapes(state, dir)
            THEN [kind |-> "None", msg |-> "", name |-> "", val |-> <<>>, rest |-> s]
            ELSE Let(FieldsRead(Shapes(state, dir)[name], s, <<>>), LAMBDA r :
                     IF r.kind = "Ok"
                     THEN [kind |-> "Some", msg |-> "", name |-> name,
                           val |-> r.val, rest |-> r.rest]
                     ELSE [kind |-> r.kind, msg |-> r.msg, name |-> name,
                           val |-> <<>>, rest |-> r.rest])

----------------------------------------------------------------------------------------------------------------------------------------
(* Framing: Conn::write_packet, Conn::read_raw_packet_from, Conn::read_packet *)

\* The frame-length ceiling of read_raw_packet_from
MaxFrameLen == 1000000000

\* (mutant) a body as long as the threshold is compressed too
ShouldCompressAtThreshold(len, T) == T >= 0 /\ len >= T

\* write_packet: `self.compression_threshold >= 0 && buf.len() as i32 >
\* self.compression_threshold`
ShouldCompress(len, T) == T >= 0 /\ len > T

\* write_packet up to the lock: the body VarInt(id) + fields, replaced by
\* VarInt(len) + zlib(body) when it is to be compressed; extra is 1 when a
\* zero size prefix is still to be written
WritePacketBuf(p, T) ==
    Let(VarIntWrite(p.id) \o p.fields, LAMBDA body :
        LET compress == ShouldCompress(Len(body), T)
        IN [buf   |-> IF compress
                      THEN VarIntWrite(Len(body)) \o ZlibEncode(body)
                      ELSE body,
            extra |-> IF compress THEN 0 ELSE IF T >= 0 THEN 1 ELSE 0])

\* (mutant) the zero size prefix is not counted
OuterLenWithoutExtra(w) == Len(w.buf)

\* write_packet: the outer length, `VarInt(buf.len() as i32 + extra)`
OuterLen(w) == Len(w.buf) + w.extra

\* write_packet under the lock: what it writes to the connection, in order
WritePacketBytes(p, T) ==
    Let(WritePacketBuf(p, T), LAMBDA w :
        VarIntWrite(OuterLen(w))
        \o (IF T >= 0 /\ w.extra = 1 THEN VarIntWrite(0) ELSE <<>>)
        \o w.buf)

\* A result of read_raw_packet_from: on "Ok" the packet id and the cursor (its
\* buffer buf and position pos).  stage is how far the call got: "length" (the
\* outer length did not decode), "ceiling" (refused by the ceiling, before the
\* body buffer exists), "body" (read_exact failed), "size" (the uncompressed
\* size did not decode), "inflate", "id", "done".  len is the decoded outer
\* length, usize the decoded uncompressed size (0: none), inflated the length
\* the body inflated to (-1: it was not inflated); rest is what the call left
\* in the stream.
RawResult(kind, msg, stage, id, cur, len, usize, inflated, rest) ==
    [kind |-> kind, msg |-> msg, stage |-> stage, id |-> id,
     buf |-> cur.buf, pos |-> cur.pos,
     len |-> len, usize |-> usize, inflated |-> inflated, rest |-> rest]

\* io::Cursor: a buffer and a position; what is left to read of it
Cursor(buf, pos) == [buf |-> buf, pos |-> pos]
Remaining(cur) == SubSeq(cur.buf, cur.pos + 1, Len(cur.buf))

\* (mutant) a frame of exactly the ceiling is refused too
FrameTooLongAtCeiling(len) == UsizeExceeds(len, MaxFrameLen - 1)

\* read_raw_packet_from: `len > 1000000000` on the usize
FrameTooLong(len) == UsizeExceeds(len, MaxFrameLen)

\* (mutant) the zero size is not told apart
IsCompressedAlways(usize) == TRUE

\* read_raw_packet_from: `uncompressed_size != 0`
IsCompressed(usize) == usize # 0

\* The tail of read_raw_packet_from: the packet id read at the cursor
RawPacketId(cur, len, usize, inflated, rest) ==
    Let(VarIntRead(Remaining(cur)), LAMBDA r :
        LET after == Cursor(cur.buf, Len(cur.buf) - Len(r.rest))
        IN IF r.kind # "Ok"
           THEN RawResult(r.kind, r.msg, "id", 0, after, len, usize, inflated, rest)
           ELSE RawResult("Ok", "", "done", r.val, after, len, usize, inflated, rest))

\* read_raw_packet_from once the len bytes of the frame are in ibuf
RawPacketBody(ibuf, T, len, rest) ==
    IF T < 0
    THEN RawPacketId(Cursor(ibuf, 0), len, 0, -1, rest)
    ELSE Let(VarIntRead(ibuf), LAMBDA u :
         Let(Cursor(ibuf, Len(ibuf) - Len(u.rest)), LAMBDA cur :
             IF u.kind # "Ok"
             THEN RawResult(u.kind, u.msg, "size", 0, cur, len, 0, -1, rest)
             ELSE IF ~IsCompressed(u.val)
             THEN RawPacketId(cur, len, 0, -1, rest)
             ELSE IF u.val < 0
             THEN RawResult("panic", "capacity overflow", "inflate", 0, cur,
                            len, u.val, -1, rest)
             ELSE Let(ZlibDecode(u.rest), LAMBDA z :
                      IF ~z.ok
                      THEN RawResult("IOError", "corrupt deflate stream", "inflate", 0,
                                     Cursor(ibuf, Len(ibuf)), len, u.val, -1, rest)
                      ELSE RawPacketId(Cursor(z.data, 0), len, u.val,
                                       Len(z.data), rest))))

\* read_raw_packet_from(buf, compression_threshold) on the stream s
ReadRawPacketFrom(s, T) ==
    Let(VarIntRead(s), LAMBDA l :
        IF l.kind # "Ok"
        THEN RawResult(l.kind, l.msg, "length", 0, Cursor(<<>>, 0), 0, 0, -1, l.rest)
        ELSE IF FrameTooLong(l.val)
        THEN RawResult("panic", "Tried to read more than 1GB of data!", "ceiling",
                       0, Cursor(<<>>, 0), l.val, 0, -1, l.rest)
        ELSE IF Len(l.rest) < l.val
        THEN RawResult("IOError", "UnexpectedEof", "body", 0, Cursor(<<>>, 0),
                       l.val, 0, -1, <<>>)
        ELSE Let(SubSeq(l.rest, 1, l.val), LAMBDA ibuf :
                 RawPacketBody(ibuf, T, l.val, SubSeq(l.rest, l.val + 1, Len(l.rest)))))

\* A result of read_packet: on "Ok" the packet; on the leftover error the
\* packet id and the count the message reports
PacketResult(kind, msg, id, left, packet, rest) ==
    [kind |-> kind, msg |-> msg, id |-> id, left |-> left, packet |-> packet, rest |-> rest]

NoPacket == [name |-> "", val |-> <<>>]

\* (mutant) the cursor position is not subtracted
LeftoverCountWhole(buflen, pos) == buflen

\* read_packet: the count of the leftover error, `ibuf.len() - pos`
LeftoverCount(buflen, pos) == buflen - pos

\* read_packet once the raw frame is in hand: the packet of the opposite
\* direction (the handle's is Serverbound), then the leftover check
ReadPacketBody(raw, state) ==
    Let(PacketById(state, "Clientbound", raw.id, Remaining(raw)), LAMBDA p :
        LET pos == Len(raw.buf) - Len(p.rest)
        IN CASE p.kind = "Some" ->
                  IF Len(raw.buf) # pos
                  THEN PacketResult("Err", "Failed to read all of packet", raw.id,
                                    LeftoverCount(Len(raw.buf), pos), NoPacket, raw.rest)
                  ELSE PacketResult("Ok", "", raw.id, 0,
                                    [name |-> p.name, val |-> p.val], raw.rest)
             [] p.kind = "None" ->
                  PacketResult("Err", "missing packet", raw.id, 0, NoPacket, raw.rest)
             [] OTHER ->
                  PacketResult(p.kind, p.msg, raw.id, 0, NoPacket, raw.rest))

\* read_packet of a handle in `state`
ReadPacket(s, T, state) ==
    Let(ReadRawPacketFrom(s, T), LAMBDA raw :
        IF raw.kind # "Ok"
        THEN PacketResult(raw.kind, raw.msg, raw.id, 0, NoPacket, raw.rest)
        ELSE ReadPacketBody(raw, state))

----------------------------------------------------------------------------
(* Bounds and input sets *)

MaxFieldLen == 2     \* the longest field byte string of a written packet
MaxInFlight == 2     \* frames written and not yet read
MaxHandles  == 2     \* connection handles

Handles == 1..MaxHandles

\* The thresholds of a session: off, compress everything, compress over 3
Thresholds == {-1, 0, 3}

\* Written packets: a one-byte and a two-byte VarInt id, field bytes of every
\* length up to MaxFieldLen
FieldStrings == {Rep(b, n) : b \in {0, 255}, n \in 0..MaxFieldLen} \cup {<<7, 255>>}
Packets == [id : {0, 200}, fields : FieldStrings]

\* A well-formed outer frame around a body
Framed(body) == VarIntWrite(Len(body)) \o body

\* Frames a peer can send.  Outer lengths around the ceiling, with fewer
\* bytes behind them than declared:
PeerLengthFrames ==
    {VarIntWrite(l) \o Rep(0, n) :
        l \in {0, 1, 2, 999999999, 1000000000, 1000000001,
               1073741823, 1073741824, 1073741825, 2147483647, -1, -2147483647},
        n \in {0, 2}}

\* An uncompressed-size prefix u in front of a deflated body, a corrupt
\* deflate stream, and a body that stops inside the size prefix:
PeerSizedFrames ==
    {Framed(VarIntWrite(u) \o ZlibEncode(body)) :
        u \in {0, 1, 2, 3, 9, -1}, body \in {<<0>>, <<1, 0, 0>>, <<200, 1>>}}
    \cup {Framed(<<2, 120, 0, 0>>), Framed(<<128>>), Framed(<<>>)}

\* Status packets as the server frames them under threshold T: a pong of 7 to
\* 10 bytes, a response whose string is shorter, as long as or longer than
\* its length prefix says, and an id outside the table
PeerPacketFrames(T) ==
    {WritePacketBytes([id |-> 1, fields |-> Rep(0, 6) \o Rep(42, n)], T) : n \in 1..4}
    \cup {WritePacketBytes([id |-> 0, fields |-> VarIntWrite(n) \o Rep(65, m)], T) :
             n \in 0..2, m \in 0..2}
    \cup {WritePacketBytes([id |-> 0, fields |-> <<1, 255>>], T),
          WritePacketBytes([id |-> 2, fields |-> <<>>], T)}

PeerFrames(T) == PeerLengthFrames \cup PeerSizedFrames \cup PeerPacketFrames(T)

----------------------------------------------------------------------------
(* SpecFrame: one session's byte stream, written and read back *)

NoRead == [op |-> "none"]

\* A frame lying in the wire: who made it, the packet (write_packet's
\* argument) and the bytes
InFlight(origin, p, bytes) == [origin |-> origin, packet |-> p, bytes |-> bytes]

RECURSIVE Concat(_)
Concat(frames) ==
    IF frames = <<>> THEN <<>> ELSE Head(frames).bytes \o Concat(Tail(frames))

\* The handle variables stay as they are when no handle exists
----------------------------------------------------------------------------
(* Protocol versions: SUPPORTED_PROTOCOLS and enum Version *)

\* (mutant) the list with the oldest version first
SUPPORTED_PROTOCOLS_Ascending ==
    <<5, 47, 74, 107, 109, 210, 315, 316, 340, 404, 451, 452, 477, 480, 485,
      490, 498, 575, 578, 735, 736, 751, 753, 754>>

\* pub const SUPPORTED_PROTOCOLS: [i32; 24]
SUPPORTED_PROTOCOLS ==
    <<754, 753, 751, 736, 735, 578, 575, 498, 490, 485, 480, 477, 452, 451,
      404, 340, 316, 315, 210, 109, 107, 74, 47, 5>>

\* enum Version in declaration order, which is the order derive(PartialOrd)
\* compares by
VersionOrder ==
    <<"Other", "Old", "V1_7", "V1_8", "V1_9", "V1_10", "V1_11", "V1_12",
      "V1_13", "V1_14", "V1_15", "V1_16", "New">>

VersionRank(b) == CHOOSE i \in DOMAIN VersionOrder : VersionOrder[i] = b

\* a < b of two Version values
VersionLess(a, b) == VersionRank(a) < VersionRank(b)

\* (mutant) the V1_14 arm ends one protocol early
FromIdShortV1_14(p) ==
    IF p < 0 THEN "New"
    ELSE IF p <= 4 THEN "Old"
    ELSE IF p = 5 THEN "V1_7"
    ELSE IF p = 47 THEN "V1_8"
    ELSE IF p >= 107 /\ p <= 110 THEN "V1_9"
    ELSE IF p = 210 THEN "V1_10"
    ELSE IF p >= 315 /\ p <= 316 THEN "V1_11"
    ELSE IF p >= 335 /\ p <= 340 THEN "V1_12"
    ELSE IF p >= 393 /\ p <= 404 THEN "V1_13"
    ELSE IF p >= 477 /\ p <= 497 THEN "V1_14"
    ELSE IF p >= 573 /\ p <= 578 THEN "V1_15"
    ELSE IF p >= 735 /\ p <= 754 THEN "V1_16"
    ELSE IF p >= 755 THEN "New"
    ELSE "Other"

\* Version::from_id(p as u32) for the i32 p: a negative p is a u32 of 2^31 or
\* more and falls in the arm 755..=u32::MAX
FromId(p) ==
    IF p < 0 THEN "New"
    ELSE IF p <= 4 THEN "Old"
    ELSE IF p = 5 THEN "V1_7"
    ELSE IF p = 47 THEN "V1_8"
    ELSE IF p >= 107 /\ p <= 110 THEN "V1_9"
    ELSE IF p = 210 THEN "V1_10"
    ELSE IF p >= 315 /\ p <= 316 THEN "V1_11"
    ELSE IF p >= 335 /\ p <= 340 THEN "V1_12"
    ELSE IF p >= 393 /\ p <= 404 THEN "V1_13"
    ELSE IF p >= 477 /\ p <= 498 THEN "V1_14"
    ELSE IF p >= 573 /\ p <= 578 THEN "V1_15"
    ELSE IF p >= 735 /\ p <= 754 THEN "V1_16"
    ELSE IF p >= 755 THEN "New"
    ELSE "Other"

\* (mutant) every bucket is supported
IsSupportedAll(b) == TRUE

\* Version::is_supported
IsSupported(b) == b \notin {"Old", "New", "Other"}

----------------------------------------------------------------------------
(* The connection handle: struct Conn, Conn::new, Clone, the transforms and *)
(* the Read / Write implementations.  A handle holds indices into three     *)
(* heaps: sockets (the TcpStream, shared by try_clone), ciphers (the two    *)
(* Arc<RwLock<Option<Aes128Cfb>>> cells) and locks (the Arc<Mutex> `send`). *)

\* AtomicI32::new(SUPPORTED_PROTOCOLS[0]): what CURRENT_PROTOCOL_VERSION starts as
SUPPORTED_PROTOCOLS_0 == SUPPORTED_PROTOCOLS[1]

\* A slot no handle lives in (never created, or dropped)
NoConn ==
    [stream |-> 0, host |-> <<>>, port |-> 0, direction |-> "",
     protocol_version |-> 0, state |-> "", read_cipher |-> 0,
     write_cipher |-> 0, compression_threshold |-> 0, send |-> 0]

Live(h) == conn[h].stream # 0

\* (mutant) a connection that starts past the handshake
InitialStateStatus == "Status"

\* Conn::new: `state: State::Handshaking`
InitialState == "Handshaking"

\* The struct Conn::new returns: stream s, fresh cipher cells rc and wc
\* (both None), a fresh send lock l
NewConn(v, s, rc, wc, l) ==
    [stream |-> s, host |-> <<108, 111>>, port |-> 25565,
     direction |-> "Serverbound", protocol_version |-> v,
     state |-> InitialState, read_cipher |-> rc, write_cipher |-> wc,
     compression_threshold |-> -1, send |-> l]

\* impl Clone for Conn: the stream is try_clone()d (the same socket), the
\* cipher cells and the send lock are Arc clones (the same cells), every
\* other field is copied by value
CloneConn(c) ==
    [stream |-> c.stream, host |-> c.host, port |-> c.port,
     direction |-> c.direction, protocol_version |-> c.protocol_version,
     state |-> c.state, read_cipher |-> c.read_cipher,
     write_cipher |-> c.write_cipher,
     compression_threshold |-> c.compression_threshold, send |-> c.send]

\* Aes128Cfb (crate cfb8, outside the modelled files) as a byte-wise
\* feedback cipher with a one-byte register: the key stream byte depends on
\* key and register, the register becomes the ciphertext byte.  `instance`
\* numbers the cipher objects installed into the cell, `holder` is the handle
\* whose thread holds the cell's RwLock write guard (0: nobody).
NoCipher == [some |-> FALSE, key |-> 0, reg |-> 0, instance |-> 0, holder |-> 0]

\* Aes128Cfb::new_from_slices(key, key): the key is also the IV
NewCipher(key, instance) ==
    [some |-> TRUE, key |-> key, reg |-> key % 256, instance |-> instance,
     holder |-> 0]

KeyStream(c) == (c.key * 31 + c.reg * 7 + 1) % 256

\* cipher.encrypt(data): <<ciphertext, cipher afterwards>>
RECURSIVE Encrypt(_, _, _)
Encrypt(c, data, acc) ==
    IF data = <<>> THEN <<acc, c>>
    ELSE LET b == (Head(data) + KeyStream(c)) % 256
         IN Encrypt([c EXCEPT !.reg = b], Tail(data), Append(acc, b))

\* cipher.decrypt(data): <<plaintext, cipher afterwards>>
RECURSIVE Decrypt(_, _, _)
Decrypt(c, data, acc) ==
    IF data = <<>> THEN <<acc, c>>
    ELSE LET b == (Head(data) - KeyStream(c)) % 256
         IN Decrypt([c EXCEPT !.reg = Head(data)], Tail(data), Append(acc, b))

\* impl Write for Conn, write(buf): what goes to the stream and the write
\* cipher afterwards
ConnWrite(cell, buf) ==
    IF cell.some THEN Encrypt(cell, buf, <<>>) ELSE <<buf, cell>>

\* (mutant) a read that leaves the read cipher where it was
ConnReadKeepsCipher(cell, bytes) ==
    <<IF cell.some THEN Decrypt(cell, bytes, <<>>)[1] ELSE bytes, cell>>

\* impl Read for Conn, read(buf): what the caller gets for the bytes taken
\* from the stream and the read cipher afterwards
ConnRead(cell, bytes) ==
    IF cell.some THEN Decrypt(cell, bytes, <<>>) ELSE <<bytes, cell>>

\* A TcpStream: `out` is what was written to it, one entry per byte (the
\* handle that wrote it, the index of the byte in its frame, the frame's
\* length, the plain byte and the byte sent); `inbox` is what the peer sent
\* and was not read yet; a broken socket fails every write
NewSocket == [out |-> <<>>, inbox |-> <<>>, broken |-> FALSE]

\* The entries of h writing bytes i+1.. of its frame (plain[k] sent as sent[k])
OutEntries(h, i, of, plain, sent) ==
    [k \in 1..Len(plain) |->
        [h |-> h, i |-> i + k, of |-> of, plain |-> plain[k], byte |-> sent[k]]]

\* Serializable::write_to of a field type
FieldWrite(type, v) ==
    CASE type = "VarInt" -> VarIntWrite(v)
      [] type = "String" -> VarIntWrite(Len(v)) \o v
      [] type = "u16"    -> <<v \div 256, v % 256>>
      [] type = "i64"    -> v
      [] type = "()"     -> <<>>
      [] type = "Option<VarInt>" -> OptionWrite(v)

\* PacketType::write: the fields in declared order
RECURSIVE FieldsWrite(_, _)
FieldsWrite(types, vals) ==
    IF types = <<>> THEN <<>>
    ELSE FieldWrite(Head(types), Head(vals)) \o FieldsWrite(Tail(types), Tail(vals))

\* PacketType::packet_id: the wire id of a shape in its table
PacketId(state, dir, name) ==
    CHOOSE id \in DOMAIN IdTable(state, dir) : IdTable(state, dir)[id] = name

\* A named packet as write_packet takes it: its wire id and field bytes
PacketOf(state, dir, name, vals) ==
    [id |-> PacketId(state, dir, name),
     fields |-> FieldsWrite(Shapes(state, dir)[name], vals)]

\* The i64 n, 0 <= n < 256, as its eight big-endian bytes
I64(n) == <<0, 0, 0, 0, 0, 0, 0, n>>

ConnIdle ==
    /\ current_protocol_version = SUPPORTED_PROTOCOLS_0
    /\ conn = [h \in Handles |-> NoConn]
    /\ ciphers = <<>>
    /\ locks = <<>>
    /\ sockets = <<>>
    /\ pc = [h \in Handles |-> "idle"]
    /\ local = [h \in Handles |-> <<>>]

InitFrame ==
    /\ debug_build \in BOOLEAN
    /\ mode \in {"loop", "peer"}
    /\ threshold \in Thresholds
    /\ wire = <<>>
    /\ pending = <<>>
    /\ last = NoRead
    /\ ConnIdle

\* write_packet(p) on the session: the whole frame goes to the wire
LoopWritePacket(p) ==
    /\ mode = "loop"
    /\ Len(pending) < MaxInFlight
    /\ \E bytes \in {WritePacketBytes(p, threshold)} :
          /\ wire' = wire \o bytes
          /\ pending' = Append(pending, InFlight("write_packet", p, bytes))
    /\ UNCHANGED <<debug_build, mode, threshold, last>>
    /\ UNCHANGED connVars

\* The peer sends a frame of its own making, once the wire is drained
PeerSend(f) ==
    /\ mode = "peer"
    /\ pending = <<>>
    /\ wire = <<>>
    /\ wire' = wire \o f
    /\ pending' = <<InFlight("peer", [id |-> 0, fields |-> <<>>], f)>>
    /\ UNCHANGED <<debug_build, mode, threshold, last>>
    /\ UNCHANGED connVars

\* Conn::read_raw_packet_from(wire, threshold); an error ends the session
CallReadRawPacketFrom ==
    /\ mode \in {"loop", "peer"}
    /\ pending # <<>>
    /\ \E raw \in {ReadRawPacketFrom(wire, threshold)} :
          /\ last' = [op |-> "raw", frame |-> Head(pending), raw |-> raw,
                      res |-> PacketResult("none", "", 0, 0, NoPacket, <<>>)]
          /\ wire' = raw.rest
          /\ mode' = IF raw.kind = "Ok" THEN mode ELSE "closed"
    /\ pending' = Tail(pending)
    /\ UNCHANGED <<debug_build, threshold>>
    /\ UNCHANGED connVars

\* Conn::read_packet in state Status on what the peer sent
CallReadPacket ==
    /\ mode = "peer"
    /\ pending # <<>>
    /\ \E res \in {ReadPacket(wire, threshold, "Status")} :
          /\ last' = [op |-> "packet", frame |-> Head(pending),
                      raw |-> ReadRawPacketFrom(wire, threshold), res |-> res]
          /\ wire' = res.rest
          /\ mode' = IF res.kind = "Ok" THEN mode ELSE "closed"
    /\ pending' = Tail(pending)
    /\ UNCHANGED <<debug_build, threshold>>
    /\ UNCHANGED connVars

NextFrame ==
    \/ \E p \in Packets : LoopWritePacket(p)
    \/ \E f \in PeerFrames(threshold) : PeerSend(f)
    \/ CallReadRawPacketFrom
    \/ CallReadPacket

SpecFrame == InitFrame /\ [][NextFrame]_vars

----------------------------------------------------------------------------
(* Claims on the framing, checked under SpecFrame *)

\* The body write_packet frames for packet p: VarInt(id) and the field bytes
BodyOf(p) == VarIntWrite(p.id) \o p.fields

\* C2: in every frame write_packet emitted, the value of the outer VarInt
\* equals the number of bytes that follow it in the frame (compression off,
\* on with a body up to the threshold, on with a longer body).
C2_OuterLengthExact ==
    \A i \in 1..Len(pending) :
        pending[i].origin = "write_packet" =>
            Let(VarIntRead(pending[i].bytes), LAMBDA r :
                r.kind = "Ok" /\ r.val = Len(r.rest))

\* C2 witness: with compression on, a frame with the zero size prefix and a
\* compressed frame lie in the wire
C2_Witness ==
    /\ threshold = 3
    /\ Len(pending) = 2
    /\ pending[1].origin = "write_packet"
    /\ Len(BodyOf(pending[1].packet)) <= 3
    /\ Len(BodyOf(pending[2].packet)) > 3

\* C3: after the outer length a frame holds the body alone when T < 0,
\* VarInt(0) and the unmodified body when T >= 0 and the body is no longer
\* than T, and VarInt(body length) and the deflated body when it is longer;
\* with T = 0 the size prefix is never zero.
C3_BodyFormByThreshold ==
    \A i \in 1..Len(pending) :
        pending[i].origin = "write_packet" =>
            Let(VarIntRead(pending[i].bytes).rest, LAMBDA inner :
            Let(BodyOf(pending[i].packet), LAMBDA body :
                /\ threshold < 0 => inner = body
                /\ threshold >= 0 /\ Len(body) <= threshold => inner = <<0>> \o body
                /\ threshold >= 0 /\ Len(body) > threshold =>
                       Let(VarIntRead(inner), LAMBDA u :
                           /\ u.kind = "Ok"
                           /\ u.val = Len(body)
                           /\ ZlibDecode(u.rest) = [ok |-> TRUE, data |-> body])
                /\ threshold = 0 => VarIntRead(inner).val # 0))

\* C3 witness: a written body exactly as long as the threshold
C3_Witness ==
    /\ threshold = 3
    /\ \E i \in 1..Len(pending) :
           /\ pending[i].origin = "write_packet"
           /\ Len(BodyOf(pending[i].packet)) = 3

\* C4: read_raw_packet_from, given what write_packet wrote under the same
\* threshold, returns the packet id written and a cursor whose remaining bytes
\* are the field bytes, and takes exactly that frame from the stream: what is
\* left is the frames written after it, so they are read in the order written.
C4_RoundTrip ==
    /\ mode = "loop" => wire = Concat(pending)
    /\ last.op = "raw" /\ last.frame.origin = "write_packet" =>
           /\ last.raw.kind = "Ok"
           /\ last.raw.id = last.frame.packet.id
           /\ Remaining(last.raw) = last.frame.packet.fields

\* C4 witness: a compressed frame was read back while the next lies behind it
C4_Witness ==
    /\ last.op = "raw"
    /\ last.frame.origin = "write_packet"
    /\ last.raw.inflated >= 0
    /\ last.raw.kind = "Ok"
    /\ pending # <<>>

\* C5: with compression on, a frame whose declared uncompressed size is not
\* zero and differs from the length its body inflates to is rejected: neither
\* read_raw_packet_from nor read_packet returns Ok for it.
C5_SizeMismatchRejected ==
    (/\ last.op # "none"
     /\ threshold >= 0
     /\ last.raw.usize # 0
     /\ last.raw.inflated >= 0
     /\ last.raw.inflated # last.raw.usize)
    => /\ last.raw.kind # "Ok"
       /\ last.res.kind # "Ok"

\* C6: read_packet returns Ok only when the decoder consumed the whole body;
\* when k > 0 bytes are left after a known packet was decoded it returns the
\* error that names the packet id and reports k.
C6_LeftoverReported ==
    last.op = "packet" /\ last.raw.kind = "Ok" =>
        Let(PacketById("Status", "Clientbound", last.raw.id, Remaining(last.raw)),
            LAMBDA p :
                /\ last.res.kind = "Ok" => p.kind = "Some" /\ p.rest = <<>>
                /\ p.kind = "Some" /\ p.rest # <<>> =>
                       /\ last.res.kind = "Err"
                       /\ last.res.msg = "Failed to read all of packet"
                       /\ last.res.id = last.raw.id
                       /\ last.res.left = Len(p.rest))

\* C6 witness: one byte was left behind a packet whose body came with the
\* zero size prefix (the cursor position counts the prefix)
C6_Witness ==
    /\ last.op = "packet"
    /\ threshold = 3
    /\ last.raw.kind = "Ok"
    /\ last.raw.usize = 0
    /\ last.res.kind = "Err"
    /\ last.res.left = 1

\* What read_raw_packet_from does with a peer's frame whose outer length
\* decoded, for a ceiling c: above c (a negative length is above) it panics
\* with nothing behind the length taken from the stream; up to c the body is
\* read, which fails only when the stream holds fewer bytes than declared.
CeilingAt(c) ==
    (last.op # "none" /\ last.frame.origin = "peer" /\ last.raw.stage # "length") =>
        LET avail == Len(last.frame.bytes) - Len(VarIntWrite(last.raw.len))
        IN IF UsizeExceeds(last.raw.len, c)
           THEN /\ last.raw.stage = "ceiling"
                /\ last.raw.kind = "panic"
                /\ Len(last.raw.rest) = avail
           ELSE /\ last.raw.stage # "ceiling"
                /\ IF avail < last.raw.len
                   THEN last.raw.stage = "body" /\ last.raw.kind = "IOError"
                   ELSE last.raw.stage # "body" /\ Len(last.raw.rest) = avail - last.raw.len

\* C7 as stated: the ceiling is 1 GiB, 2^30 bytes.
C7_CeilingOneGiB == CeilingAt(1073741824)

\* C7 amended: the ceiling is 1,000,000,000 bytes.
C7_CeilingOneBillion == CeilingAt(MaxFrameLen)

\* C7 witness: a declared length of 1,000,000,001 was refused
C7_Witness ==
    /\ last.op # "none"
    /\ last.raw.len = 1000000001
    /\ last.raw.stage = "ceiling"

----------------------------------------------------------------------------
(* SpecConn: handles are created, cloned, transformed and advanced, and a   *)
(* fresh connection is probed with do_status.                               *)

MaxInstalls == 2     \* cipher objects installed into one cell

ProtocolVersions == {SUPPORTED_PROTOCOLS_0, 47}

\* Keys handed to enable_encyption: two of 16 bytes, one of a wrong length
Keys == {[len |-> 16, k |-> 1], [len |-> 16, k |-> 2], [len |-> 15, k |-> 1]}

\* The status texts a server answers with and what serde_json::from_str
\* (outside the modelled files) makes of them: the members, as paths, of a
\* parsed object; "" and "{" are not JSON
StatusTexts == {<<>>, <<123>>, <<123, 125>>}
\* serde_json::Value (outside the modelled files): an object is a function
\* from its keys, a number that fits an i64 is its eight bytes
JsonObject(m) == [t |-> "object", m |-> m]
JsonArray(items) == [t |-> "array", items |-> items]
JsonString(str) == [t |-> "string", s |-> str]
JsonNumber(d) == [t |-> "number", d |-> d]

\* Value::get(key), Value::as_str, Value::as_i64: an Option is the empty set
\* or a set of one
Get(val, key) ==
    IF val.t = "object" /\ key \in DOMAIN val.m THEN {val.m[key]} ELSE {}
AsStr(val) == IF val.t = "string" THEN {val.s} ELSE {}
AsI64(val) == IF val.t = "number" THEN {val.d} ELSE {}
TheOne(S) == CHOOSE x \in S : TRUE

\* `as i32` of an i64: its low four bytes
AsI32(d) ==
    (d[5] % 128) * 16777216 + d[6] * 65536 + d[7] * 256 + d[8]
    - (IF d[5] >= 128 THEN 2147483647 ELSE 0) - (IF d[5] >= 128 THEN 1 ELSE 0)

\* Status documents and what serde_json::from_str makes of their text
StatusDocs ==
    <<
      [text |-> \* {}
                <<123, 125>>,
       value |-> JsonObject(<<>>)],
      [text |-> \* {"version":{"name":"a","protocol":754},"players":{"max":20,"online":3},"description":"hi"}
                <<123, 34, 118, 101, 114, 115, 105, 111, 110, 34, 58, 123,
                  34, 110, 97, 109, 101, 34, 58, 34, 97, 34, 44, 34, 112,
                  114, 111, 116, 111, 99, 111, 108, 34, 58, 55, 53, 52, 125,
                  44, 34, 112, 108, 97, 121, 101, 114, 115, 34, 58, 123, 34,
                  109, 97, 120, 34, 58, 50, 48, 44, 34, 111, 110, 108, 105,
                  110, 101, 34, 58, 51, 125, 44, 34, 100, 101, 115, 99, 114,
                  105, 112, 116, 105, 111, 110, 34, 58, 34, 104, 105, 34,
                  125>>,
       value |-> JsonObject([version |-> JsonObject([name |->
                 JsonString("a"), protocol |-> JsonNumber(<<0, 0, 0, 0, 0,
                 0, 2, 242>>)]), players |-> JsonObject([max |->
                 JsonNumber(<<0, 0, 0, 0, 0, 0, 0, 20>>), online |->
                 JsonNumber(<<0, 0, 0, 0, 0, 0, 0, 3>>)]), description |->
                 JsonString("hi")])],
      [text |-> \* {"version":{"name":"a","protocol":47},"players":{"max":20,"online":3},"description":"hi"}
                <<123, 34, 118, 101, 114, 115, 105, 111, 110, 34, 58, 123,
                  34, 110, 97, 109, 101, 34, 58, 34, 97, 34, 44, 34, 112,
                  114, 111, 116, 111, 99, 111, 108, 34, 58, 52, 55, 125, 44,
                  34, 112, 108, 97, 121, 101, 114, 115, 34, 58, 123, 34,
                  109, 97, 120, 34, 58, 50, 48, 44, 34, 111, 110, 108, 105,
                  110, 101, 34, 58, 51, 125, 44, 34, 100, 101, 115, 99, 114,
                  105, 112, 116, 105, 111, 110, 34, 58, 34, 104, 105, 34,
                  125>>,
       value |-> JsonObject([version |-> JsonObject([name |->
                 JsonString("a"), protocol |-> JsonNumber(<<0, 0, 0, 0, 0,
                 0, 0, 47>>)]), players |-> JsonObject([max |->
                 JsonNumber(<<0, 0, 0, 0, 0, 0, 0, 20>>), online |->
                 JsonNumber(<<0, 0, 0, 0, 0, 0, 0, 3>>)]), description |->
                 JsonString("hi")])],
      [text |-> \* {"version":{"name":"a","protocol":74},"players":{"max":20,"online":3},"description":"hi"}
                <<123, 34, 118, 101, 114, 115, 105, 111, 110, 34, 58, 123,
                  34, 110, 97, 109, 101, 34, 58, 34, 97, 34, 44, 34, 112,
                  114, 111, 116, 111, 99, 111, 108, 34, 58, 55, 52, 125, 44,
                  34, 112, 108, 97, 121, 101, 114, 115, 34, 58, 123, 34,
                  109, 97, 120, 34, 58, 50, 48, 44, 34, 111, 110, 108, 105,
                  110, 101, 34, 58, 51, 125, 44, 34, 100, 101, 115, 99, 114,
                  105, 112, 116, 105, 111, 110, 34, 58, 34, 104, 105, 34,
                  125>>,
       value |-> JsonObject([version |-> JsonObject([name |->
                 JsonString("a"), protocol |-> JsonNumber(<<0, 0, 0, 0, 0,
                 0, 0, 74>>)]), players |-> JsonObject([max |->
                 JsonNumber(<<0, 0, 0, 0, 0, 0, 0, 20>>), online |->
                 JsonNumber(<<0, 0, 0, 0, 0, 0, 0, 3>>)]), description |->
                 JsonString("hi")])],
      [text |-> \* {"version":{"name":"a","protocol":-1},"players":{"max":20,"online":3},"description":"hi"}
                <<123, 34, 118, 101, 114, 115, 105, 111, 110, 34, 58, 123,
                  34, 110, 97, 109, 101, 34, 58, 34, 97, 34, 44, 34, 112,
                  114, 111, 116, 111, 99, 111, 108, 34, 58, 45, 49, 125, 44,
                  34, 112, 108, 97, 121, 101, 114, 115, 34, 58, 123, 34,
                  109, 97, 120, 34, 58, 50, 48, 44, 34, 111, 110, 108, 105,
                  110, 101, 34, 58, 51, 125, 44, 34, 100, 101, 115, 99, 114,
                  105, 112, 116, 105, 111, 110, 34, 58, 34, 104, 105, 34,
                  125>>,
       value |-> JsonObject([version |-> JsonObject([name |->
                 JsonString("a"), protocol |-> JsonNumber(<<255, 255, 255,
                 255, 255, 255, 255, 255>>)]), players |-> JsonObject([max
                 |-> JsonNumber(<<0, 0, 0, 0, 0, 0, 0, 20>>), online |->
                 JsonNumber(<<0, 0, 0, 0, 0, 0, 0, 3>>)]), description |->
                 JsonString("hi")])],
      [text |-> \* {"version":{"name":"a","protocol":754},"players":{"max":20,"online":3}}
                <<123, 34, 118, 101, 114, 115, 105, 111, 110, 34, 58, 123,
                  34, 110, 97, 109, 101, 34, 58, 34, 97, 34, 44, 34, 112,
                  114, 111, 116, 111, 99, 111, 108, 34, 58, 55, 53, 52, 125,
                  44, 34, 112, 108, 97, 121, 101, 114, 115, 34, 58, 123, 34,
                  109, 97, 120, 34, 58, 50, 48, 44, 34, 111, 110, 108, 105,
                  110, 101, 34, 58, 51, 125, 125>>,
       value |-> JsonObject([version |-> JsonObject([name |->
                 JsonString("a"), protocol |-> JsonNumber(<<0, 0, 0, 0, 0,
                 0, 2, 242>>)]), players |-> JsonObject([max |->
                 JsonNumber(<<0, 0, 0, 0, 0, 0, 0, 20>>), online |->
                 JsonNumber(<<0, 0, 0, 0, 0, 0, 0, 3>>)])])],
      [text |-> \* {"version":{"name":"a","protocol":"754"},"players":{"max":20,"online":3},"description":"hi"}
                <<123, 34, 118, 101, 114, 115, 105, 111, 110, 34, 58, 123,
                  34, 110, 97, 109, 101, 34, 58, 34, 97, 34, 44, 34, 112,
                  114, 111, 116, 111, 99, 111, 108, 34, 58, 34, 55, 53, 52,
                  34, 125, 44, 34, 112, 108, 97, 121, 101, 114, 115, 34, 58,
                  123, 34, 109, 97, 120, 34, 58, 50, 48, 44, 34, 111, 110,
                  108, 105, 110, 101, 34, 58, 51, 125, 44, 34, 100, 101,
                  115, 99, 114, 105, 112, 116, 105, 111, 110, 34, 58, 34,
                  104, 105, 34, 125>>,
       value |-> JsonObject([version |-> JsonObject([name |->
                 JsonString("a"), protocol |-> JsonString("754")]), players
                 |-> JsonObject([max |-> JsonNumber(<<0, 0, 0, 0, 0, 0, 0,
                 20>>), online |-> JsonNumber(<<0, 0, 0, 0, 0, 0, 0, 3>>)]),
                 description |-> JsonString("hi")])],
      [text |-> \* {"version":{"name":"a","protocol":754},"description":"hi"}
                <<123, 34, 118, 101, 114, 115, 105, 111, 110, 34, 58, 123,
                  34, 110, 97, 109, 101, 34, 58, 34, 97, 34, 44, 34, 112,
                  114, 111, 116, 111, 99, 111, 108, 34, 58, 55, 53, 52, 125,
                  44, 34, 100, 101, 115, 99, 114, 105, 112, 116, 105, 111,
                  110, 34, 58, 34, 104, 105, 34, 125>>,
       value |-> JsonObject([version |-> JsonObject([name |->
                 JsonString("a"), protocol |-> JsonNumber(<<0, 0, 0, 0, 0,
                 0, 2, 242>>)]), description |-> JsonString("hi")])],
      [text |-> \* {"version":{"name":"a","protocol":754},"players":{"max":4294967297,"online":3},"description":"hi"}
                <<123, 34, 118, 101, 114, 115, 105, 111, 110, 34, 58, 123,
                  34, 110, 97, 109, 101, 34, 58, 34, 97, 34, 44, 34, 112,
                  114, 111, 116, 111, 99, 111, 108, 34, 58, 55, 53, 52, 125,
                  44, 34, 112, 108, 97, 121, 101, 114, 115, 34, 58, 123, 34,
                  109, 97, 120, 34, 58, 52, 50, 57, 52, 57, 54, 55, 50, 57,
                  55, 44, 34, 111, 110, 108, 105, 110, 101, 34, 58, 51, 125,
                  44, 34, 100, 101, 115, 99, 114, 105, 112, 116, 105, 111,
                  110, 34, 58, 34, 104, 105, 34, 125>>,
       value |-> JsonObject([version |-> JsonObject([name |->
                 JsonString("a"), protocol |-> JsonNumber(<<0, 0, 0, 0, 0,
                 0, 2, 242>>)]), players |-> JsonObject([max |->
                 JsonNumber(<<0, 0, 0, 1, 0, 0, 0, 1>>), online |->
                 JsonNumber(<<0, 0, 0, 0, 0, 0, 0, 3>>)]), description |->
                 JsonString("hi")])],
      [text |-> \* {"version":{"name":"a","protocol":754},"players":{"max":20,"online":3},"description":"hi","modinfo":{"type":"FML","modList":[{"modid":"m","version":"1"}]}}
                <<123, 34, 118, 101, 114, 115, 105, 111, 110, 34, 58, 123,
                  34, 110, 97, 109, 101, 34, 58, 34, 97, 34, 44, 34, 112,
                  114, 111, 116, 111, 99, 111, 108, 34, 58, 55, 53, 52, 125,
                  44, 34, 112, 108, 97, 121, 101, 114, 115, 34, 58, 123, 34,
                  109, 97, 120, 34, 58, 50, 48, 44, 34, 111, 110, 108, 105,
                  110, 101, 34, 58, 51, 125, 44, 34, 100, 101, 115, 99, 114,
                  105, 112, 116, 105, 111, 110, 34, 58, 34, 104, 105, 34,
                  44, 34, 109, 111, 100, 105, 110, 102, 111, 34, 58, 123,
                  34, 116, 121, 112, 101, 34, 58, 34, 70, 77, 76, 34, 44,
                  34, 109, 111, 100, 76, 105, 115, 116, 34, 58, 91, 123, 34,
                  109, 111, 100, 105, 100, 34, 58, 34, 109, 34, 44, 34, 118,
                  101, 114, 115, 105, 111, 110, 34, 58, 34, 49, 34, 125, 93,
                  125, 125>>,
       value |-> JsonObject([version |-> JsonObject([name |->
                 JsonString("a"), protocol |-> JsonNumber(<<0, 0, 0, 0, 0,
                 0, 2, 242>>)]), players |-> JsonObject([max |->
                 JsonNumber(<<0, 0, 0, 0, 0, 0, 0, 20>>), online |->
                 JsonNumber(<<0, 0, 0, 0, 0, 0, 0, 3>>)]), description |->
                 JsonString("hi"), modinfo |-> JsonObject([type |->
                 JsonString("FML"), modList |->
                 JsonArray(<<JsonObject([modid |-> JsonString("m"), version
                 |-> JsonString("1")])>>)])])],
      [text |-> \* {"version":{"name":"a","protocol":754},"players":{"max":20,"online":3},"description":"hi","forgeData":{"mods":[{"modId":"m","modmarker":"2"}],"fmlNetworkVersion":2}}
                <<123, 34, 118, 101, 114, 115, 105, 111, 110, 34, 58, 123,
                  34, 110, 97, 109, 101, 34, 58, 34, 97, 34, 44, 34, 112,
                  114, 111, 116, 111, 99, 111, 108, 34, 58, 55, 53, 52, 125,
                  44, 34, 112, 108, 97, 121, 101, 114, 115, 34, 58, 123, 34,
                  109, 97, 120, 34, 58, 50, 48, 44, 34, 111, 110, 108, 105,
                  110, 101, 34, 58, 51, 125, 44, 34, 100, 101, 115, 99, 114,
                  105, 112, 116, 105, 111, 110, 34, 58, 34, 104, 105, 34,
                  44, 34, 102, 111, 114, 103, 101, 68, 97, 116, 97, 34, 58,
                  123, 34, 109, 111, 100, 115, 34, 58, 91, 123, 34, 109,
                  111, 100, 73, 100, 34, 58, 34, 109, 34, 44, 34, 109, 111,
                  100, 109, 97, 114, 107, 101, 114, 34, 58, 34, 50, 34, 125,
                  93, 44, 34, 102, 109, 108, 78, 101, 116, 119, 111, 114,
                  107, 86, 101, 114, 115, 105, 111, 110, 34, 58, 50, 125,
                  125>>,
       value |-> JsonObject([version |-> JsonObject([name |->
                 JsonString("a"), protocol |-> JsonNumber(<<0, 0, 0, 0, 0,
                 0, 2, 242>>)]), players |-> JsonObject([max |->
                 JsonNumber(<<0, 0, 0, 0, 0, 0, 0, 20>>), online |->
                 JsonNumber(<<0, 0, 0, 0, 0, 0, 0, 3>>)]), description |->
                 JsonString("hi"), forgeData |-> JsonObject([mods |->
                 JsonArray(<<JsonObject([modId |-> JsonString("m"),
                 modmarker |-> JsonString("2")])>>), fmlNetworkVersion |->
                 JsonNumber(<<0, 0, 0, 0, 0, 0, 0, 2>>)])])],
      [text |-> \* {"version":{"name":"a","protocol":754},"players":{"max":20,"online":3},"description":"hi","forgeData":{}}
                <<123, 34, 118, 101, 114, 115, 105, 111, 110, 34, 58, 123,
                  34, 110, 97, 109, 101, 34, 58, 34, 97, 34, 44, 34, 112,
                  114, 111, 116, 111, 99, 111, 108, 34, 58, 55, 53, 52, 125,
                  44, 34, 112, 108, 97, 121, 101, 114, 115, 34, 58, 123, 34,
                  109, 97, 120, 34, 58, 50, 48, 44, 34, 111, 110, 108, 105,
                  110, 101, 34, 58, 51, 125, 44, 34, 100, 101, 115, 99, 114,
                  105, 112, 116, 105, 111, 110, 34, 58, 34, 104, 105, 34,
                  44, 34, 102, 111, 114, 103, 101, 68, 97, 116, 97, 34, 58,
                  123, 125, 125>>,
       value |-> JsonObject([version |-> JsonObject([name |->
                 JsonString("a"), protocol |-> JsonNumber(<<0, 0, 0, 0, 0,
                 0, 2, 242>>)]), players |-> JsonObject([max |->
                 JsonNumber(<<0, 0, 0, 0, 0, 0, 0, 20>>), online |->
                 JsonNumber(<<0, 0, 0, 0, 0, 0, 0, 3>>)]), description |->
                 JsonString("hi"), forgeData |-> JsonObject(<<>>)])],
      [text |-> \* {"version":{"name":"a","protocol":754},"players":{"max":20,"online":3},"description":"hi","modinfo":{"type":"FML","modList":[{"modid":"m"}]}}
                <<123, 34, 118, 101, 114, 115, 105, 111, 110, 34, 58, 123,
                  34, 110, 97, 109, 101, 34, 58, 34, 97, 34, 44, 34, 112,
                  114, 111, 116, 111, 99, 111, 108, 34, 58, 55, 53, 52, 125,
                  44, 34, 112, 108, 97, 121, 101, 114, 115, 34, 58, 123, 34,
                  109, 97, 120, 34, 58, 50, 48, 44, 34, 111, 110, 108, 105,
                  110, 101, 34, 58, 51, 125, 44, 34, 100, 101, 115, 99, 114,
                  105, 112, 116, 105, 111, 110, 34, 58, 34, 104, 105, 34,
                  44, 34, 109, 111, 100, 105, 110, 102, 111, 34, 58, 123,
                  34, 116, 121, 112, 101, 34, 58, 34, 70, 77, 76, 34, 44,
                  34, 109, 111, 100, 76, 105, 115, 116, 34, 58, 91, 123, 34,
                  109, 111, 100, 105, 100, 34, 58, 34, 109, 34, 125, 93,
                  125, 125>>,
       value |-> JsonObject([version |-> JsonObject([name |->
                 JsonString("a"), protocol |-> JsonNumber(<<0, 0, 0, 0, 0,
                 0, 2, 242>>)]), players |-> JsonObject([max |->
                 JsonNumber(<<0, 0, 0, 0, 0, 0, 0, 20>>), online |->
                 JsonNumber(<<0, 0, 0, 0, 0, 0, 0, 3>>)]), description |->
                 JsonString("hi"), modinfo |-> JsonObject([type |->
                 JsonString("FML"), modList |->
                 JsonArray(<<JsonObject([modid |-> JsonString("m")])>>)])])]
    >>

\* serde_json::from_str(&status): the value of a text of the table; any
\* other text here ("" and "{") is not JSON
JsonFromStr(text) ==
    IF \E k \in DOMAIN StatusDocs : StatusDocs[k].text = text
    THEN [valid |-> TRUE,
          value |-> StatusDocs[CHOOSE k \in DOMAIN StatusDocs :
                                  StatusDocs[k].text = text].value]
    ELSE [valid |-> FALSE, value |-> JsonObject(<<>>)]

\* What a status server can answer (no compression, no cipher): a response,
\* a pong with the marker or another payload, a response with a byte too
\* many, a login-state id, nothing
ServerFrames ==
    {Framed(<<0>> \o FieldWrite("String", t)) : t \in StatusTexts}
    \cup {Framed(<<1>> \o I64(42)), Framed(<<1>> \o I64(7)),
          Framed(<<0, 0, 9>>), Framed(<<5>>), <<>>}

\* The slot a new handle goes to: the lowest one never used
FreeSlot(h) ==
    /\ conn[h] = NoConn /\ pc[h] = "idle"
    /\ \A g \in Handles : g < h => ~(conn[g] = NoConn /\ pc[g] = "idle")

Idle(h) == Live(h) /\ pc[h] = "idle"

\* The handles of the connection h belongs to (the handles on its socket)
Family(h) == {g \in Handles : Live(g) /\ conn[g].stream = conn[h].stream}

\* Conn::new(target, v): the version is stored in the static first; then
\* TcpStream::connect succeeds (ok) or its error is returned
ConnNew(h, v, ok) ==
    /\ FreeSlot(h)
    /\ current_protocol_version' = v
    /\ IF ok
       THEN /\ sockets' = Append(sockets, NewSocket)
            /\ ciphers' = ciphers \o <<NoCipher, NoCipher>>
            /\ locks' = Append(locks, 0)
            /\ conn' = [conn EXCEPT ![h] =
                           NewConn(v, Len(sockets) + 1, Len(ciphers) + 1,
                                   Len(ciphers) + 2, Len(locks) + 1)]
       ELSE UNCHANGED <<sockets, ciphers, locks, conn>>
    /\ UNCHANGED <<debug_build, pc, local>>
    /\ UNCHANGED frameVars

\* conn.clone() into slot g
ConnClone(h, g) ==
    /\ Idle(h)
    /\ FreeSlot(g)
    /\ conn' = [conn EXCEPT ![g] = CloneConn(conn[h])]
    /\ UNCHANGED <<debug_build, current_protocol_version, ciphers, locks, sockets, pc, local>>
    /\ UNCHANGED frameVars

\* conn.set_compression(t)
SetCompression(h, t) ==
    /\ Idle(h)
    /\ conn' = [conn EXCEPT ![h].compression_threshold = t]
    /\ UNCHANGED <<debug_build, current_protocol_version, ciphers, locks, sockets, pc, local>>
    /\ UNCHANGED frameVars

\* conn.enable_encyption(key): both ciphers are built (a key of the wrong
\* length panics in the unwrap), then each replaces what its cell holds,
\* under the cell's write guard
EnableEncryption(h, key) ==
    /\ Idle(h)
    /\ ciphers[conn[h].read_cipher].instance < MaxInstalls
    /\ key.len = 16 => /\ ciphers[conn[h].read_cipher].holder = 0
                       /\ ciphers[conn[h].write_cipher].holder = 0
    /\ IF key.len # 16
       THEN /\ pc' = [pc EXCEPT ![h] = "done"]
            /\ local' = [local EXCEPT ![h] = [result |-> "panic", msg |-> "InvalidLength"]]
            /\ conn' = [conn EXCEPT ![h] = NoConn]
            /\ UNCHANGED ciphers
       ELSE /\ ciphers' = [ciphers EXCEPT
                  ![conn[h].read_cipher] = NewCipher(key.k, @.instance + 1),
                  ![conn[h].write_cipher] = NewCipher(key.k, @.instance + 1)]
            /\ UNCHANGED <<pc, local, conn>>
    /\ UNCHANGED <<debug_build, current_protocol_version, locks, sockets>>
    /\ UNCHANGED frameVars

\* The caller moves the connection on: Server::connect (outside the modelled
\* files) sets conn.state to Login after its handshake and to Play after
\* the login succeeded
CallerAdvance(h, s) ==
    /\ Idle(h)
    /\ \/ conn[h].state = "Handshaking" /\ s = "Login"
       \/ conn[h].state = "Login" /\ s = "Play"
    /\ conn' = [conn EXCEPT ![h].state = s]
    /\ UNCHANGED <<debug_build, current_protocol_version, ciphers, locks, sockets, pc, local>>
    /\ UNCHANGED frameVars

\* (mutant) do_status moves the connection to Login
DoStatusStateLogin == "Login"

\* do_status: `self.state = State::Status`
DoStatusState == "Status"

\* write_packet(p) of handle h with struct c in one piece, on socket and
\* write cipher w: the frame goes through Write for Conn to the stream
WriteWhole(h, c, w, p) ==
    LET frame == WritePacketBytes(p, c.compression_threshold)
        e == ConnWrite(w.cell, frame)
    IN [sock |-> [w.sock EXCEPT
                     !.out = @ \o OutEntries(h, 0, Len(frame), frame, e[1])],
        cell |-> e[2]]

\* A write that fails: the stream is of no more use
WriteFailed(w) == [sock |-> [w.sock EXCEPT !.broken = TRUE], cell |-> w.cell]

\* The end of a call that consumed the handle: its result is kept, the
\* handle is dropped
Consumed(h, kind, msg) ==
    /\ pc' = [pc EXCEPT ![h] = "done"]
    /\ local' = [local EXCEPT ![h] = [result |-> kind, msg |-> msg]]
    /\ conn' = [conn EXCEPT ![h] = NoConn]

\* The end of do_status past its reads: the result st of its tail is kept
\* (on Ok with the Status), the handle is dropped
ReturnedStatus(h, st) ==
    /\ pc' = [pc EXCEPT ![h] = "done"]
    /\ local' = [local EXCEPT ![h] =
                    [result |-> st.kind, msg |-> st.msg, status |-> st.status]]
    /\ conn' = [conn EXCEPT ![h] = NoConn]

\* do_status is called on the connection Conn::new just returned
\* (Game::connect_to): no clone, no transform, still in the handshake
Fresh(h) ==
    /\ Idle(h)
    /\ Family(h) = {h}
    /\ conn[h].state = InitialState
    /\ conn[h].compression_threshold = -1
    /\ ~ciphers[conn[h].read_cipher].some
    /\ sockets[conn[h].stream].out = <<>>

\* do_status up to its first read: write_packet(Handshake), state = Status,
\* write_packet(StatusRequest); n of the two writes succeed
DoStatusSend(h, n) ==
    /\ Fresh(h)
    /\ locks[conn[h].send] = 0
    /\ LET c  == conn[h]
           w0 == [sock |-> sockets[c.stream], cell |-> ciphers[c.write_cipher]]
           hs == PacketOf("Handshaking", "Serverbound", "Handshake",
                          <<c.protocol_version, c.host, c.port, 1>>)
           rq == PacketOf("Status", "Serverbound", "StatusRequest", <<<<>>>>)
           w1 == IF n >= 1 THEN WriteWhole(h, c, w0, hs) ELSE WriteFailed(w0)
           c1 == IF n >= 1 THEN [c EXCEPT !.state = DoStatusState] ELSE c
           w2 == IF n = 2 THEN WriteWhole(h, c1, w1, rq)
                 ELSE IF n = 1 THEN WriteFailed(w1) ELSE w1
       IN /\ sockets' = [sockets EXCEPT ![c.stream] = w2.sock]
          /\ ciphers' = [ciphers EXCEPT ![c.write_cipher] = w2.cell]
          /\ IF n = 2
             THEN /\ conn' = [conn EXCEPT ![h] = c1]
                  /\ pc' = [pc EXCEPT ![h] = "status_response"]
                  /\ UNCHANGED local
             ELSE Consumed(h, "IOError", "write failed")
    /\ UNCHANGED <<debug_build, current_protocol_version, locks>>
    /\ UNCHANGED frameVars

\* The mods of a list of items: every item that is an object must have the
\* two keys as strings (`.unwrap().as_str().unwrap()`), other items are
\* passed over
RECURSIVE ModsOf(_, _, _)
ModsOf(items, id_key, version_key) ==
    IF items = <<>> THEN [panic |-> FALSE, mods |-> <<>>]
    ELSE LET item == Head(items)
             rest == ModsOf(Tail(items), id_key, version_key)
         IN IF item.t # "object" THEN rest
            ELSE IF \/ Get(item, id_key) = {}
                    \/ AsStr(TheOne(Get(item, id_key))) = {}
                    \/ Get(item, version_key) = {}
                    \/ AsStr(TheOne(Get(item, version_key))) = {}
            THEN [panic |-> TRUE, mods |-> <<>>]
            ELSE [panic |-> rest.panic,
                  mods |-> <<[modid |-> TheOne(AsStr(TheOne(Get(item, id_key)))),
                              version |-> TheOne(AsStr(TheOne(Get(item, version_key))))]>>
                           \o rest.mods]

\* do_status on "modinfo": a modList array under type "FML" gives the mods
\* and the network version 1
ModInfo(val) ==
    LET none == [panic |-> FALSE, mods |-> <<>>, fml |-> {}]
    IN IF Get(val, "modinfo") = {} THEN none
       ELSE LET modinfo == TheOne(Get(val, "modinfo"))
            IN IF Get(modinfo, "type") = {} THEN none
               ELSE IF TheOne(Get(modinfo, "type")) # JsonString("FML") THEN none
               ELSE IF Get(modinfo, "modList") = {} THEN none
               ELSE IF TheOne(Get(modinfo, "modList")).t # "array" THEN none
               ELSE LET r == ModsOf(TheOne(Get(modinfo, "modList")).items,
                                    "modid", "version")
                    IN [panic |-> r.panic, mods |-> r.mods, fml |-> {I64(1)}]

\* do_status on "forgeData": the mods of its "mods" array are added, and
\* "fmlNetworkVersion" must be there as an i64
ForgeData(val, before) ==
    IF Get(val, "forgeData") = {} THEN before
    ELSE LET forge_data == TheOne(Get(val, "forgeData"))
             r == IF Get(forge_data, "mods") = {}
                     \/ TheOne(Get(forge_data, "mods")).t # "array"
                  THEN [panic |-> FALSE, mods |-> <<>>]
                  ELSE ModsOf(TheOne(Get(forge_data, "mods")).items,
                              "modId", "modmarker")
             fml == Get(forge_data, "fmlNetworkVersion")
         IN IF r.panic \/ fml = {} \/ AsI64(TheOne(fml)) = {}
            THEN [panic |-> TRUE, mods |-> <<>>, fml |-> {}]
            ELSE [panic |-> FALSE, mods |-> before.mods \o r.mods,
                  fml |-> AsI64(TheOne(fml))]

\* `value.get(key).and_then(Value::as_i64)`, `.. as_str`
GetI64(S, key) == IF S = {} \/ Get(TheOne(S), key) = {} THEN {}
                  ELSE AsI64(TheOne(Get(TheOne(S), key)))
GetStr(S, key) == IF S = {} \/ Get(TheOne(S), key) = {} THEN {}
                  ELSE AsStr(TheOne(Get(TheOne(S), key)))

StatusErr(kind, msg) == [kind |-> kind, msg |-> msg, status |-> <<>>]

\* The tail of do_status: the status text is parsed, "version" and
\* "players" are taken, the two mod manifests are gone through, and the
\* Status is built field by field
StatusResult(text) ==
    Let(JsonFromStr(text), LAMBDA doc :
        IF ~doc.valid THEN StatusErr("Err", "Json parse error")
        ELSE LET val == doc.value
                 version == Get(val, "version")
                 players == Get(val, "players")
                 mods == ForgeData(val, ModInfo(val))
             IN IF version = {} \/ players = {}
                THEN StatusErr("Err", "Invalid status")
                ELSE IF ModInfo(val).panic \/ mods.panic
                THEN StatusErr("panic", "called Option::unwrap() on a None value")
                ELSE IF \/ GetStr(version, "name") = {}
                        \/ GetI64(version, "protocol") = {}
                        \/ GetI64(players, "max") = {}
                        \/ GetI64(players, "online") = {}
                        \/ Get(val, "description") = {}
                THEN StatusErr("Err", "Invalid status")
                ELSE [kind |-> "Ok", msg |-> "",
                      status |->
                        [version |->
                            [name |-> TheOne(GetStr(version, "name")),
                             protocol |-> AsI32(TheOne(GetI64(version, "protocol")))],
                         players |->
                            [max |-> AsI32(TheOne(GetI64(players, "max"))),
                             online |-> AsI32(TheOne(GetI64(players, "online")))],
                         description |-> TheOne(Get(val, "description")),
                         favicon |-> GetStr({val}, "favicon"),
                         forge_mods |-> mods.mods,
                         fml_network_version |-> mods.fml]])

\* read_packet of handle h once the peer's bytes f arrived: the bytes pass
\* the read cipher, one frame is taken, the rest stays in the stream
ReadWhole(h, f) ==
    LET c  == conn[h]
        d  == ConnRead(ciphers[c.read_cipher], sockets[c.stream].inbox \o f)
    IN ReadPacket(d[1], c.compression_threshold, c.state)

\* do_status from its first read to its second: read_packet must give a
\* StatusResponse, then write_packet(StatusPing { ping: 42 })
DoStatusResponse(h, f, ok) ==
    /\ Live(h) /\ pc[h] = "status_response"
    /\ locks[conn[h].send] = 0
    /\ \E res \in {ReadWhole(h, f)} :
        LET c  == conn[h]
            w0 == [sock |-> [sockets[c.stream] EXCEPT !.inbox = res.rest],
                   cell |-> ciphers[c.write_cipher]]
            pg == PacketOf("Status", "Serverbound", "StatusPing", <<I64(42)>>)
        IN IF res.kind # "Ok"
           THEN /\ Consumed(h, res.kind, res.msg)
                /\ sockets' = [sockets EXCEPT ![c.stream] = w0.sock]
                /\ UNCHANGED ciphers
           ELSE IF res.packet.name # "StatusResponse"
           THEN /\ Consumed(h, "Err", "Wrong packet")
                /\ sockets' = [sockets EXCEPT ![c.stream] = w0.sock]
                /\ UNCHANGED ciphers
           ELSE IF ~ok
           THEN /\ Consumed(h, "IOError", "write failed")
                /\ sockets' = [sockets EXCEPT ![c.stream] = WriteFailed(w0).sock]
                /\ UNCHANGED ciphers
           ELSE /\ pc' = [pc EXCEPT ![h] = "status_pong"]
                /\ UNCHANGED conn
                /\ local' = [local EXCEPT ![h] = [status |-> res.packet.val[1]]]
                /\ sockets' = [sockets EXCEPT ![c.stream] = WriteWhole(h, c, w0, pg).sock]
                /\ ciphers' = [ciphers EXCEPT ![c.write_cipher] = WriteWhole(h, c, w0, pg).cell]
    /\ UNCHANGED <<debug_build, current_protocol_version, locks>>
    /\ UNCHANGED frameVars

\* do_status from its second read to its end: read_packet must give a
\* StatusPong (its payload is not looked at), then the status text is parsed
DoStatusPong(h, f) ==
    /\ Live(h) /\ pc[h] = "status_pong"
    /\ \E res \in {ReadWhole(h, f)} :
        LET c  == conn[h]
            st == StatusResult(local[h].status)
        IN /\ sockets' = [sockets EXCEPT ![c.stream].inbox = res.rest]
           /\ IF res.kind # "Ok" THEN Consumed(h, res.kind, res.msg)
              ELSE IF res.packet.name # "StatusPong"
              THEN Consumed(h, "Err", "Wrong packet")
              ELSE ReturnedStatus(h, st)
    /\ UNCHANGED <<debug_build, current_protocol_version, locks, ciphers>>
    /\ UNCHANGED frameVars

InitConn ==
    /\ debug_build \in BOOLEAN
    /\ mode = "closed"
    /\ threshold = -1
    /\ wire = <<>>
    /\ pending = <<>>
    /\ last = NoRead
    /\ ConnIdle

NextConn ==
    \/ \E h \in Handles, v \in ProtocolVersions, ok \in BOOLEAN : ConnNew(h, v, ok)
    \/ \E h, g \in Handles : ConnClone(h, g)
    \/ \E h \in Handles, t \in Thresholds : SetCompression(h, t)
    \/ \E h \in Handles, key \in Keys : EnableEncryption(h, key)
    \/ \E h \in Handles, s \in {"Login", "Play"} : CallerAdvance(h, s)
    \/ \E h \in Handles, n \in 0..2 : DoStatusSend(h, n)
    \/ \E h \in Handles, f \in ServerFrames, ok \in BOOLEAN : DoStatusResponse(h, f, ok)
    \/ \E h \in Handles, f \in ServerFrames : DoStatusPong(h, f)

SpecConn == InitConn /\ [][NextConn]_vars

----------------------------------------------------------------------------
(* Claims on the handle, checked under SpecConn *)

\* C8: two handles of one connection (a handle and its clone) observe the
\* same transform state whatever enable_encyption and set_compression calls
\* were made on either: the same read cipher, the same write cipher and the
\* same compression threshold.
C8_CloneSharesTransforms ==
    \A h, g \in Handles :
        (Live(h) /\ Live(g) /\ conn[h].stream = conn[g].stream) =>
            /\ ciphers[conn[h].read_cipher] = ciphers[conn[g].read_cipher]
            /\ ciphers[conn[h].write_cipher] = ciphers[conn[g].write_cipher]
            /\ conn[h].compression_threshold = conn[g].compression_threshold

\* C9: no step takes a handle's compression threshold from >= 0 to a
\* negative value, and no step removes an installed cipher or puts another
\* cipher object in its place.
C9_TransformsOneWay ==
    [][/\ \A h \in Handles :
            (Live(h) /\ conn'[h].stream = conn[h].stream
                /\ conn[h].compression_threshold >= 0) =>
                conn'[h].compression_threshold >= 0
       /\ \A i \in DOMAIN ciphers :
            ciphers[i].some =>
                ciphers'[i].some /\ ciphers'[i].instance = ciphers[i].instance]_vars

\* The order of the states: Handshaking, then Status or Login, then Play
Advances(s, t) ==
    \/ s = t
    \/ <<s, t>> \in {<<"Handshaking", "Status">>, <<"Handshaking", "Login">>,
                     <<"Status", "Play">>, <<"Login", "Play">>}

----------------------------------------------------------------------------
(* SpecSend: the handles of one connection call write_packet concurrently.  *)
(* A call is cut where another thread can run: before the lock is taken,    *)
(* and between any two bytes handed to the stream (VarInt::write_to writes  *)
(* byte by byte, write_all in as many pieces as the stream takes).          *)

MaxSends == 3        \* write_packet calls on the connection

\* The packets sent: an empty one and one with two field bytes
SendPackets == {[id |-> 0, fields |-> <<>>], [id |-> 0, fields |-> <<7, 255>>]}

\* (mutant) a lock that never makes a writer wait
LockFreeAlways(holder) == TRUE

\* lock.lock() returns once no other thread holds the guard
LockFree(holder) == holder = 0

\* write_packet calls begun on socket s
Begun(s) ==
    Cardinality({j \in DOMAIN sockets[s].out : sockets[s].out[j].i = 1})
    + Cardinality({h \in Handles : /\ Live(h) /\ conn[h].stream = s
                                   /\ pc[h] \in {"lock", "write"}
                                   /\ local[h].sent = 0})

\* The bytes write_packet hands to the connection one by one, each in a
\* write call of its own (VarInt::write_to of the outer length and of the
\* zero size prefix); `self.write_all(&buf)` follows as one call
PrefixLen(p, T) ==
    Len(WritePacketBytes(p, T)) - Len(WritePacketBuf(p, T).buf)

\* write_packet(p) up to `lock.lock()`: the body is built, compressed when
\* over the threshold, and the bytes of the frame are fixed.  The calls are
\* counted on the stream, so none is begun once a write has failed (a call
\* begun before fails at its first byte)
WriteBegin(h, p) ==
    /\ Idle(h)
    /\ Begun(conn[h].stream) < MaxSends
    /\ ~sockets[conn[h].stream].broken
    /\ pc' = [pc EXCEPT ![h] = "lock"]
    /\ local' = [local EXCEPT ![h] =
                    [frame |-> WritePacketBytes(p, conn[h].compression_threshold),
                     prefix |-> PrefixLen(p, conn[h].compression_threshold),
                     sent |-> 0]]
    /\ UNCHANGED <<debug_build, current_protocol_version, conn, ciphers, locks, sockets>>
    /\ UNCHANGED frameVars

\* `let _lock = lock.lock()`
WriteLock(h) ==
    /\ Live(h) /\ pc[h] = "lock"
    /\ LockFree(locks[conn[h].send])
    /\ locks' = [locks EXCEPT ![conn[h].send] = h]
    /\ pc' = [pc EXCEPT ![h] = "write"]
    /\ UNCHANGED <<debug_build, current_protocol_version, conn, ciphers, sockets, local>>
    /\ UNCHANGED frameVars

\* One byte of the frame goes to the stream.  Write for Conn takes the
\* write cipher's guard for the call: for one byte of the prefix, and from
\* the first to the last byte of the body, which it encrypts as a whole
\* before write_all hands it to the stream in as many pieces as the stream
\* takes.  A failed write (always, on a broken stream) returns the error and
\* drops both guards; the cipher has then processed the whole buffer of the
\* call, whatever the stream took of it
WriteByte(h, ok) ==
    /\ Live(h) /\ pc[h] = "write"
    /\ local[h].sent < Len(local[h].frame)
    /\ ciphers[conn[h].write_cipher].holder \in {0, h}
    /\ LET c == conn[h]
           n == Len(local[h].frame)
           i == local[h].sent + 1
           b == local[h].frame[i]
           e == ConnWrite(ciphers[c.write_cipher], <<b>>)
           rest == IF i <= local[h].prefix THEN <<b>>
                   ELSE SubSeq(local[h].frame, i, n)
       IN IF ok /\ ~sockets[c.stream].broken
          THEN /\ sockets' = [sockets EXCEPT ![c.stream].out =
                                 @ \o OutEntries(h, local[h].sent, n, <<b>>, e[1])]
               /\ ciphers' = [ciphers EXCEPT ![c.write_cipher] =
                                 [e[2] EXCEPT !.holder =
                                     IF i > local[h].prefix /\ i < n THEN h ELSE 0]]
               /\ local' = [local EXCEPT ![h].sent = @ + 1]
               /\ UNCHANGED <<pc, locks>>
          ELSE /\ sockets' = [sockets EXCEPT ![c.stream].broken = TRUE]
               /\ locks' = [locks EXCEPT ![c.send] = 0]
               /\ pc' = [pc EXCEPT ![h] = "idle"]
               /\ local' = [local EXCEPT ![h] = <<>>]
               /\ ciphers' = [ciphers EXCEPT ![c.write_cipher] =
                                 [ConnWrite(@, rest)[2] EXCEPT !.holder = 0]]
    /\ UNCHANGED <<debug_build, current_protocol_version, conn>>
    /\ UNCHANGED frameVars

\* The frame is out: Ok(()) and the guard is dropped
WriteEnd(h) ==
    /\ Live(h) /\ pc[h] = "write"
    /\ local[h].sent = Len(local[h].frame)
    /\ locks' = [locks EXCEPT ![conn[h].send] = 0]
    /\ pc' = [pc EXCEPT ![h] = "idle"]
    /\ local' = [local EXCEPT ![h] = <<>>]
    /\ UNCHANGED <<debug_build, current_protocol_version, conn, ciphers, sockets>>
    /\ UNCHANGED frameVars

\* One connection after its login: Conn::new, then set_compression(t) or
\* not, then enable_encyption(key) or not
InitSend ==
    /\ debug_build \in BOOLEAN
    /\ mode = "closed"
    /\ threshold = -1
    /\ wire = <<>>
    /\ pending = <<>>
    /\ last = NoRead
    /\ current_protocol_version = SUPPORTED_PROTOCOLS_0
    /\ \E t \in Thresholds :
          conn = [h \in Handles |->
                     IF h = 1
                     THEN [NewConn(SUPPORTED_PROTOCOLS_0, 1, 1, 2, 1)
                              EXCEPT !.compression_threshold = t, !.state = "Play"]
                     ELSE NoConn]
    /\ ciphers \in {<<NoCipher, NoCipher>>, <<NewCipher(1, 1), NewCipher(1, 1)>>}
    /\ locks = <<0>>
    /\ sockets = <<NewSocket>>
    /\ pc = [h \in Handles |-> "idle"]
    /\ local = [h \in Handles |-> <<>>]

NextSend ==
    \/ \E h, g \in Handles : ConnClone(h, g)
    \/ \E h \in Handles, p \in SendPackets : WriteBegin(h, p)
    \/ \E h \in Handles : WriteLock(h)
    \/ \E h \in Handles, ok \in BOOLEAN : WriteByte(h, ok)
    \/ \E h \in Handles : WriteEnd(h)

SpecSend == InitSend /\ [][NextSend]_vars

----------------------------------------------------------------------------
(* Claims on concurrent writers, checked under SpecSend *)

\* The plain bytes of the frame that ends at entry j of the log o
FrameEndingAt(o, j) == [k \in 1..o[j].of |-> o[j - o[j].of + k].plain]

\* C1: in what reached a socket, the bytes of a frame lie side by side: a
\* byte that is not the first of its frame follows the byte before it of
\* the same frame, a byte that is not the last of its frame is followed by
\* nothing but the next byte of the same frame, and a frame that is complete
\* is a frame write_packet builds.
C1_WholeFrames ==
    \A s \in DOMAIN sockets :
        LET o == sockets[s].out
        IN \A j \in DOMAIN o :
              /\ o[j].i > 1 =>
                    /\ j > 1
                    /\ o[j - 1].h = o[j].h
                    /\ o[j - 1].i = o[j].i - 1
                    /\ o[j - 1].of = o[j].of
              /\ (o[j].i < o[j].of /\ j < Len(o)) =>
                    /\ o[j + 1].h = o[j].h
                    /\ o[j + 1].i = o[j].i + 1
              /\ (o[j].i = o[j].of /\ j >= o[j].of) =>
                    \E p \in SendPackets, T \in Thresholds :
                        FrameEndingAt(o, j) = WritePacketBytes(p, T)

\* One handle is in the middle of its frame while another waits for the
\* lock, after a frame of the waiting handle went out whole
C1_Witness ==
    \E h, g \in Handles :
        /\ h # g
        /\ Live(h) /\ pc[h] = "write"
        /\ local[h].sent > 0 /\ local[h].sent < Len(local[h].frame)
        /\ Live(g) /\ pc[g] = "lock" /\ conn[g].stream = conn[h].stream
        /\ \E j \in DOMAIN sockets[conn[h].stream].out :
              LET e == sockets[conn[h].stream].out[j]
              IN e.h = g /\ e.i = e.of

----------------------------------------------------------------------------
(* SpecDuplex: the handles of one connection read and write at the same     *)
(* time.  Read for Conn takes the read cipher's guard and keeps it while    *)
(* stream.read waits for the peer; nothing obliges the peer to send.  A     *)
(* thread that can run is run in the end, and the stream takes what is      *)
(* written to it: weak fairness of the steps of write_packet.  A thread     *)
(* waiting for the send mutex gets it in the end when it is released again  *)
(* and again: strong fairness of taking the lock.                           *)

\* (mutant) a reader that goes through the cell the writers use
ReadCipherOfWriter(c) == c.write_cipher

\* Read for Conn: `self.read_cipher.clone().write().unwrap()`
ReadCipherOf(c) == c.read_cipher

\* What the peer sends, under the connection's threshold: a status response
\* and a frame cut short
DuplexFrames(T) ==
    {IF T >= 0 THEN Framed(<<0>> \o b) ELSE Framed(b) : b \in {<<0, 0>>}}
    \cup {<<2, 0>>}

\* read_packet up to its first stream.read: the guard of the read cipher is
\* taken and the thread waits for bytes
ReadBegin(h) ==
    /\ Idle(h)
    /\ ciphers[ReadCipherOf(conn[h])].holder = 0
    /\ sockets[conn[h].stream].inbox = <<>>
    /\ ciphers' = [ciphers EXCEPT ![ReadCipherOf(conn[h])].holder = h]
    /\ pc' = [pc EXCEPT ![h] = "read"]
    /\ UNCHANGED <<debug_build, current_protocol_version, conn, locks, sockets, local>>
    /\ UNCHANGED frameVars

\* The peer's bytes f arrive: stream.read returns, the guard is dropped, and
\* read_packet goes on to its result (each further read finds its bytes)
ReadArrive(h, f) ==
    /\ Live(h) /\ pc[h] = "read"
    /\ \E res \in {ReadWhole(h, f)} :
          /\ local' = [local EXCEPT ![h] = <<>>]
          /\ sockets' = [sockets EXCEPT ![conn[h].stream].inbox = <<>>]
          /\ pc' = [pc EXCEPT ![h] = IF res.kind = "panic" THEN "done" ELSE "idle"]
    /\ ciphers' = [ciphers EXCEPT ![ReadCipherOf(conn[h])].holder = 0]
    /\ UNCHANGED <<debug_build, current_protocol_version, conn, locks>>
    /\ UNCHANGED frameVars

NextDuplex ==
    \/ \E h, g \in Handles : ConnClone(h, g)
    \/ \E h \in Handles : ReadBegin(h)
    \/ \E h \in Handles :
          \E f \in DuplexFrames(conn[h].compression_threshold) : ReadArrive(h, f)
    \/ \E h \in Handles, p \in SendPackets : WriteBegin(h, p)
    \/ \E h \in Handles : WriteLock(h)
    \/ \E h \in Handles, ok \in BOOLEAN : WriteByte(h, ok)
    \/ \E h \in Handles : WriteEnd(h)

FairWriters ==
    \A h \in Handles :
        /\ SF_vars(WriteLock(h))
        /\ WF_vars(\E ok \in BOOLEAN : WriteByte(h, ok))
        /\ WF_vars(WriteEnd(h))

SpecDuplex == InitSend /\ [][NextDuplex]_vars /\ FairWriters

----------------------------------------------------------------------------
(* Claims on reading and writing at once, checked under SpecDuplex *)

\* C11: a handle waiting in read_packet for the peer's bytes holds neither
\* the send lock nor the write cipher's guard, and every write_packet that
\* a handle of the connection has begun comes to its end, whether or not
\* the peer ever sends the bytes a reader waits for.
C11_ReaderNeverBlocksWriter ==
    /\ [](\A r \in Handles :
            (Live(r) /\ pc[r] = "read") =>
                /\ locks[conn[r].send] # r
                /\ ciphers[conn[r].write_cipher].holder # r)
    /\ \A h \in Handles : (pc[h] = "lock") ~> (pc[h] = "idle")

\* A handle waits for the peer while its clone is in the middle of a frame,
\* after a frame of the clone went out whole
C11_Witness ==
    \E r, h \in Handles :
        /\ r # h
        /\ Live(r) /\ pc[r] = "read"
        /\ Live(h) /\ pc[h] = "write" /\ conn[h].stream = conn[r].stream
        /\ local[h].sent > 0 /\ local[h].sent < Len(local[h].frame)
        /\ \E j \in DOMAIN sockets[conn[h].stream].out :
              LET e == sockets[conn[h].stream].out[j]
              IN e.h = h /\ e.i = e.of

----------------------------------------------------------------------------
(* Packet id translation: protocol_packet_ids! and PacketType::packet_id.   *)
(* The macro turns the `$id => $name` lines of one version's table into two *)
(* matches, wire id -> internal id and back.  The tables, the internal ids  *)
(* (create_ids!, in declaration order, from 0) and the choice of the table  *)
(* by version live outside the modelled files.                              *)

\* The names of a (state, direction) group in the order state_packets!
\* declares them; the internal id of a name is its place, counted from 0
InternalNames(state, dir) ==
    CASE state = "Handshaking" /\ dir = "Serverbound" -> <<"Handshake">>
      [] state = "Status" /\ dir = "Serverbound" -> <<"StatusRequest", "StatusPing">>
      [] state = "Status" /\ dir = "Clientbound" -> <<"StatusResponse", "StatusPong">>
      [] state = "Login" /\ dir = "Clientbound" ->
             <<"LoginDisconnect", "EncryptionRequest", "LoginSuccess_String",
               "LoginSuccess_UUID", "SetInitialCompression", "LoginPluginRequest">>
      [] OTHER -> <<>>

InternalIdOf(state, dir, name) ==
    (CHOOSE i \in DOMAIN InternalNames(state, dir) :
         InternalNames(state, dir)[i] = name) - 1

\* The `$id => $name` lines of the table of a version, in their order
IdLines(version, state, dir) ==
    CASE state = "Login" /\ dir = "Clientbound" /\ version = SUPPORTED_PROTOCOLS_0 ->
             <<<<0, "LoginDisconnect">>, <<1, "EncryptionRequest">>,
               <<2, "LoginSuccess_UUID">>, <<3, "SetInitialCompression">>,
               <<4, "LoginPluginRequest">>>>
      [] state = "Login" /\ dir = "Clientbound" /\ version = 47 ->
             <<<<0, "LoginDisconnect">>, <<1, "EncryptionRequest">>,
               <<2, "LoginSuccess_String">>, <<3, "SetInitialCompression">>>>
      [] OTHER ->
             [k \in 1..Len(InternalNames(state, dir)) |->
                 <<k - 1, InternalNames(state, dir)[k]>>]

\* A table line as the pair of numbers the generated match holds
LinePairs(version, state, dir) ==
    [k \in DOMAIN IdLines(version, state, dir) |->
        [wire |-> IdLines(version, state, dir)[k][1],
         internal |-> InternalIdOf(state, dir, IdLines(version, state, dir)[k][2])]]

\* The first arm of a match that takes the value: 0 when none does
FirstArm(pairs, Takes(_)) ==
    IF \E k \in DOMAIN pairs : Takes(pairs[k])
    THEN CHOOSE k \in DOMAIN pairs :
             Takes(pairs[k]) /\ \A j \in 1..(k - 1) : ~Takes(pairs[j])
    ELSE 0

\* (mutant) the flag is not looked at: every id is taken for a wire id
TranslateAlwaysToInternal(pairs, id, to_internal) ==
    LET k == FirstArm(pairs, LAMBDA e : e.wire = id)
    IN IF k = 0 THEN [kind |-> "panic", msg |-> "bad packet id", val |-> 0]
       ELSE [kind |-> "Ok", msg |-> "", val |-> pairs[k].internal]

\* (mutant) an id no arm takes is handed back as it came
TranslatePassThrough(pairs, id, to_internal) ==
    LET k == IF to_internal THEN FirstArm(pairs, LAMBDA e : e.wire = id)
             ELSE FirstArm(pairs, LAMBDA e : e.internal = id)
    IN IF k = 0 THEN [kind |-> "Ok", msg |-> "", val |-> id]
       ELSE [kind |-> "Ok", msg |-> "",
             val |-> IF to_internal THEN pairs[k].internal ELSE pairs[k].wire]

\* translate_internal_packet_id for one (state, direction): the first arm
\* that matches, `_ => panic!` otherwise
TranslateInternalPacketId(pairs, id, to_internal) ==
    LET k == IF to_internal THEN FirstArm(pairs, LAMBDA e : e.wire = id)
             ELSE FirstArm(pairs, LAMBDA e : e.internal = id)
    IN IF k = 0
       THEN [kind |-> "panic",
             msg |-> IF to_internal THEN "bad packet id" ELSE "bad packet internal id",
             val |-> 0]
       ELSE [kind |-> "Ok", msg |-> "",
             val |-> IF to_internal THEN pairs[k].internal ELSE pairs[k].wire]

\* The versions that have a table
TableVersions == {SUPPORTED_PROTOCOLS_0, 47}

\* translate_internal_packet_id_for_version: the table of the version, a
\* panic for a version without one
TranslateForVersion(version, state, dir, id, to_internal) ==
    IF version \notin TableVersions
    THEN [kind |-> "panic", msg |-> "unsupported protocol version", val |-> 0]
    ELSE TranslateInternalPacketId(LinePairs(version, state, dir), id, to_internal)

----------------------------------------------------------------------------
(* VarLong and VarShort.  An i64 is its eight bytes, most significant       *)
(* first (two's complement); bit i of it counts from the least significant. *)

BitOf(d, i) == IF i > 63 THEN 0 ELSE (d[8 - (i \div 8)] \div Pow2(i % 8)) % 2

\* Bits 7k .. 7k+6 of the u64: one group of `val & PART` after k shifts
GroupOf(d, k) ==
    BitOf(d, 7 * k) + 2 * BitOf(d, 7 * k + 1) + 4 * BitOf(d, 7 * k + 2)
    + 8 * BitOf(d, 7 * k + 3) + 16 * BitOf(d, 7 * k + 4)
    + 32 * BitOf(d, 7 * k + 5) + 64 * BitOf(d, 7 * k + 6)

\* VarLong::write_to from group k on: the group is the last one when
\* `(val & !PART) == 0`, that is when every higher group is zero
RECURSIVE VarLongWriteLoop(_, _)
VarLongWriteLoop(d, k) ==
    IF \A j \in (k + 1)..9 : GroupOf(d, j) = 0
    THEN <<GroupOf(d, k)>>
    ELSE <<GroupOf(d, k) + 128>> \o VarLongWriteLoop(d, k + 1)

VarLongWrite(d) == VarLongWriteLoop(d, 0)

\* The i64 whose 7-bit groups, least significant first, are g (of ten
\* groups the last one gives bit 63 only: `<< 63` drops the rest)
BitOfGroups(g, i) ==
    IF (i \div 7) + 1 > Len(g) THEN 0 ELSE (g[(i \div 7) + 1] \div Pow2(i % 7)) % 2

FromGroups(g) ==
    [m \in 1..8 |->
        LET lo == 8 * (8 - m)
        IN BitOfGroups(g, lo) + 2 * BitOfGroups(g, lo + 1)
           + 4 * BitOfGroups(g, lo + 2) + 8 * BitOfGroups(g, lo + 3)
           + 16 * BitOfGroups(g, lo + 4) + 32 * BitOfGroups(g, lo + 5)
           + 64 * BitOfGroups(g, lo + 6) + 128 * BitOfGroups(g, lo + 7)]

\* VarLong::read_from; g holds the groups read so far.  The eleventh byte
\* makes size 11 and is refused, but only after `(b & PART) << (size * 7)`
\* was evaluated with a shift of 70 on a u64: with overflow checks that
\* shift panics, without them it wraps.
RECURSIVE VarLongReadLoop(_, _)
VarLongReadLoop(s, g) ==
    IF s = <<>>
    THEN ReadErr("IOError", "UnexpectedEof", s)
    ELSE IF Len(g) >= 10
    THEN IF debug_build
         THEN ReadErr("panic", "attempt to shift left with overflow", Tail(s))
         ELSE ReadErr("Err", "VarLong too big", Tail(s))
    ELSE IF Head(s) < 128
    THEN ReadOk(FromGroups(Append(g, Head(s) % 128)), Tail(s))
    ELSE VarLongReadLoop(Tail(s), Append(g, Head(s) % 128))

VarLongRead(s) == Let(s, LAMBDA t : VarLongReadLoop(t, <<>>))

\* VarShort::write_to: the assertion, then the low 15 bits as a u16 with the
\* top bit set when more follows, then bits 15..22 as one byte
VarShortWrite(v) ==
    IF ~(v >= 0 /\ v <= 8388607)
    THEN [kind |-> "panic", msg |-> "VarShort invalid value", bytes |-> <<>>]
    ELSE LET low  == v % 32768
             high == (v \div 32768) % 256
         IN [kind |-> "Ok", msg |-> "",
             bytes |-> IF high # 0
                       THEN <<(low + 32768) \div 256, low % 256, high>>
                       ELSE <<low \div 256, low % 256>>]

\* (mutant) the extra byte is put one bit too high
VarShortReadShift16(s) ==
    Let(ReadFixed(s, 2), LAMBDA l :
        IF l.kind # "Ok" THEN l
        ELSE IF l.val < 32768 THEN l
        ELSE Let(ReadFixed(l.rest, 1), LAMBDA h :
                 IF h.kind # "Ok" THEN h
                 ELSE ReadOk(h.val * 65536 + (l.val % 32768), h.rest)))

\* VarShort::read_from: a big-endian u16, and when its top bit is set one
\* more byte: `(high << 15) | (low & 0x7fff)`
VarShortRead(s) ==
    Let(ReadFixed(s, 2), LAMBDA l :
        IF l.kind # "Ok" THEN l
        ELSE IF l.val < 32768 THEN l
        ELSE Let(ReadFixed(l.rest, 1), LAMBDA h :
                 IF h.kind # "Ok" THEN h
                 ELSE ReadOk(h.val * 32768 + (l.val % 32768), h.rest)))

----------------------------------------------------------------------------
(* SpecCodec: the codecs and the id translation applied to inputs, one call *)
(* at a time; `last` holds the call and what it gave.                       *)

MaxExtra == 2        \* bytes behind an encoding, bytes past a width limit

\* Bytes that follow an encoding in the stream
Tails == {Rep(b, n) : b \in {0, 255}, n \in 0..MaxExtra}

\* i32 values at the edges of the 7-bit groups and of the sign
VarIntValues ==
    {0, 1, 127, 128, 255, 300, 16383, 16384, 2097151, 2097152, 268435455,
     268435456, 2147483647, -1, -128, -129, -268435456, -2147483647,
     -2147483647 - 1}

\* i64 values at the edges of the 7-bit groups and of the sign
VarLongValues ==
    {I64(0), I64(1), I64(127), I64(128), I64(255),
     <<0, 0, 0, 0, 0, 0, 64, 0>>, <<0, 0, 0, 0, 127, 255, 255, 255>>,
     <<0, 0, 0, 0, 128, 0, 0, 0>>, <<0, 128, 0, 0, 0, 0, 0, 0>>,
     <<127, 255, 255, 255, 255, 255, 255, 255>>,
     <<128, 0, 0, 0, 0, 0, 0, 0>>, <<128, 0, 0, 0, 0, 0, 0, 1>>,
     <<255, 255, 255, 255, 255, 255, 255, 255>>,
     <<255, 255, 255, 255, 128, 0, 0, 0>>}

\* VarShort values in and around 0..=0x7fffff
VarShortValues ==
    {-1, 0, 1, 255, 256, 32767, 32768, 32769, 65535, 65536, 8388606, 8388607,
     8388608, 2147483647, -2147483647}

\* Streams of n continuation bytes and what follows them
ContinuationStreams(limit) ==
    {Rep(b, n) \o t : b \in {128, 255},
                      n \in (limit - 1)..(limit + MaxExtra),
                      t \in {<<>>, <<0>>, <<1>>}}

\* Streams for String::read_from: prefixes that are negative, longer than
\* the input, exact and shorter than the input; bytes that are UTF-8 and
\* bytes that are not
StringStreams ==
    {VarIntWrite(l) \o b : l \in {-1, 0, 1, 2, 3, 70000},
                          b \in {<<>>, <<97>>, <<97, 98>>, <<255>>, <<195, 169>>,
                                 <<195>>, <<97, 98, 99>>}}

----------------------------------------------------------------------------
(* Shapes with conditional fields.  state_packets! turns                   *)
(* `field f: T = when(cond)` into `if true && cond(&self)` around the      *)
(* field's write and `if true && cond(&packet)` around its read.  The      *)
(* shapes that use `when` are declared in protocol/packet.rs, outside the  *)
(* modelled files: the two below follow the specification's description, a *)
(* field present when an earlier field has a given value, once with a      *)
(* plain type and once with Option<T>.                                     *)

Field(name, type, when) == [name |-> name, type |-> type, when |-> when]

ConditionalShapes ==
    ("Variant" :> <<Field("id", "VarInt", "always"),
                    Field("ty", "VarInt", "always"),
                    Field("x", "VarInt", "ty_is_2"),
                    Field("hand", "VarInt", "ty_is_0_or_2")>>)
    @@ ("Optional" :> <<Field("action", "VarInt", "always"),
                        Field("title", "Option<VarInt>", "action_is_0")>>)

\* The closures of the `when` clauses
When(cond, packet) ==
    CASE cond = "always"       -> TRUE
      [] cond = "ty_is_2"      -> packet["ty"] = 2
      [] cond = "ty_is_0_or_2" -> packet["ty"] \in {0, 2}
      [] cond = "action_is_0"  -> packet["action"] = 0

\* Default::default() of a field type
FieldDefault(type) ==
    CASE type = "VarInt" -> 0
      [] type = "Option<VarInt>" -> {}

\* $name::default()
ShapeDefault(fields) ==
    [n \in {fields[i].name : i \in DOMAIN fields} |->
        FieldDefault(fields[CHOOSE i \in DOMAIN fields : fields[i].name = n].type)]

\* PacketType::write: each field in declared order, under its `when`
\* clause on the packet itself
RECURSIVE ShapeWrite(_, _)
ShapeWrite(fields, packet) ==
    IF fields = <<>> THEN <<>>
    ELSE (IF When(Head(fields).when, packet)
          THEN FieldWrite(Head(fields).type, packet[Head(fields).name])
          ELSE <<>>) \o ShapeWrite(Tail(fields), packet)

\* packet_by_id, the arm of one shape: each field in declared order, under
\* its `when` clause on the packet read so far; the first failure ends it
RECURSIVE ShapeRead(_, _, _)
ShapeRead(fields, s, packet) ==
    IF fields = <<>> THEN ReadOk(packet, s)
    ELSE IF ~When(Head(fields).when, packet)
    THEN ShapeRead(Tail(fields), s, packet)
    ELSE Let(FieldRead(Head(fields).type, s), LAMBDA r :
             IF r.kind # "Ok" THEN r
             ELSE ShapeRead(Tail(fields), r.rest,
                            [packet EXCEPT ![Head(fields).name] = r.val]))

\* The packets of a conditional shape that are written
ShapePackets(name) ==
    IF name = "Variant"
    THEN [{"id"} -> {1, 300}] \X [{"ty"} -> {0, 1, 2}] \X [{"x"} -> {0, 7}]
            \X [{"hand"} -> {0, 1}]
    ELSE [{"action"} -> {0, 1}] \X [{"title"} -> {{}, {5}, {300}}]

Merge(t) == IF Len(t) = 2 THEN t[1] @@ t[2] ELSE t[1] @@ t[2] @@ t[3] @@ t[4]

\* A call of a codec leaves everything but its record alone
CodecCall ==
    /\ UNCHANGED <<debug_build, mode, threshold, wire, pending>>
    /\ UNCHANGED connVars

\* VarInt(x).write_to, then VarInt::read_from on what was written and t
CallVarInt(x, t) ==
    \E enc \in {VarIntWrite(x)} :
        /\ last' = [op |-> "VarInt", x |-> x, tail |-> t, enc |-> enc,
                    dec |-> VarIntRead(enc \o t)]
        /\ CodecCall

\* VarLong(d).write_to, then VarLong::read_from on what was written and t
CallVarLong(d, t) ==
    \E enc \in {VarLongWrite(d)} :
        /\ last' = [op |-> "VarLong", x |-> d, tail |-> t, enc |-> enc,
                    dec |-> VarLongRead(enc \o t)]
        /\ CodecCall

\* VarShort(v).write_to, then VarShort::read_from on what was written and t
CallVarShort(v, t) ==
    /\ last' = Let(VarShortWrite(v), LAMBDA w :
         [op |-> "VarShort", x |-> v, tail |-> t, enc |-> w,
          dec |-> IF w.kind = "Ok" THEN VarShortRead(w.bytes \o t)
                  ELSE ReadErr("none", "", t)])
    /\ CodecCall

\* VarInt::read_from(s)
CallVarIntRead(s) ==
    /\ last' = [op |-> "VarInt::read_from", input |-> s, res |-> VarIntRead(s)]
    /\ CodecCall

\* VarLong::read_from(s)
CallVarLongRead(s) ==
    /\ last' = [op |-> "VarLong::read_from", input |-> s, res |-> VarLongRead(s)]
    /\ CodecCall

\* String::read_from(s)
CallStringRead(s) ==
    /\ last' = [op |-> "String::read_from", input |-> s, res |-> StringRead(s)]
    /\ CodecCall

\* translate_internal_packet_id_for_version(version, state, dir, id,
\* to_internal), and the way back for an id it gave
CallTranslate(version, state, dir, id, to_internal) ==
    /\ last' = Let(TranslateForVersion(version, state, dir, id, to_internal),
                   LAMBDA res :
         [op |-> "translate", version |-> version, state |-> state,
          dir |-> dir, id |-> id, to_internal |-> to_internal,
          res |-> res,
          back |-> IF res.kind = "Ok"
                   THEN TranslateForVersion(version, state, dir, res.val,
                                            ~to_internal)
                   ELSE res])
    /\ CodecCall

\* packet_by_id(version, state, dir, id, bytes)
CallPacketById(state, dir, id, bytes) ==
    /\ last' = [op |-> "packet_by_id", state |-> state, dir |-> dir, id |-> id,
                input |-> bytes, res |-> PacketById(state, dir, id, bytes)]
    /\ CodecCall

\* write of a packet of a conditional shape, then the shape's arm of
\* packet_by_id on what was written and t
CallShape(name, p, t) ==
    /\ last' = Let(Merge(p), LAMBDA packet :
                  Let(ShapeWrite(ConditionalShapes[name], packet), LAMBDA enc :
         [op |-> "shape", name |-> name, packet |-> packet, tail |-> t,
          enc |-> enc,
          dec |-> ShapeRead(ConditionalShapes[name], enc \o t,
                            ShapeDefault(ConditionalShapes[name]))]))
    /\ CodecCall

\* ReadBytesExt::read_i32::<BigEndian>: the i32 of four bytes
I32Of(b) ==
    (b[1] % 128) * 16777216 + b[2] * 65536 + b[3] * 256 + b[4]
    - (IF b[1] >= 128 THEN 2147483647 ELSE 0) - (IF b[1] >= 128 THEN 1 ELSE 0)

\* Serializable for i32::read_from
I32Read(s) ==
    Let(ReadFixed(s, 4), LAMBDA r :
        IF r.kind # "Ok" THEN r ELSE ReadOk(I32Of(r.val), r.rest))

\* The length of Biomes3D::data
Biomes3DLen == 1024

\* Biomes3D::read_from: `data` is [0; 1024]; the loop goes over a copy of it
\* (`&mut data.to_vec()`), reads an i32 for each item of the copy, and the
\* result holds `data` itself
Biomes3DRead(s) ==
    IF Len(s) < 4 * Biomes3DLen
    THEN \* the input is read to its end before the read that fails
         ReadErr("IOError", "UnexpectedEof", SubSeq(s, Len(s) + 1, Len(s)))
    ELSE Let([i \in 1..Biomes3DLen |-> 0], LAMBDA data :
             ReadOk(data, SubSeq(s, 4 * Biomes3DLen + 1, Len(s))))

\* The inputs of Biomes3D::read_from: all zero or the bytes 0, 7, 14, ..,
\* exactly as long as the array needs, one byte shorter, longer, and empty
Biomes3DStreams ==
    {[i \in 1..n |-> (7 * (i - 1) * k) % 256] :
        n \in {0, 4 * Biomes3DLen - 1, 4 * Biomes3DLen, 4 * Biomes3DLen + MaxExtra},
        k \in {0, 1}}

CallBiomes3DRead(s) ==
    /\ last' = [op |-> "Biomes3D::read_from", input |-> s, res |-> Biomes3DRead(s)]
    /\ CodecCall

\* The types that carry a length
LengthTypes == {"bool", "u8", "i16", "i32", "VarInt", "VarShort", "VarLong"}

\* A usize as an i64 (`u as i64`), for the lengths below 65536
U64(u) == <<0, 0, 0, 0, 0, 0, u \div 256, u % 256>>

\* Lengthable::from_len: `u != 0`, `u as u8`, `u as i16`, `u as i32`
FromLen(L, u) ==
    CASE L = "bool" -> u # 0
      [] L = "u8" -> u % 256
      [] L = "i16" -> ((u + 32768) % 65536) - 32768
      [] L = "VarLong" -> U64(u)
      [] OTHER -> u

\* A usize that no Vec can hold (a negative integer cast to usize)
HugeLen == -1

\* Lengthable::into_len: 1 or 0 for a bool, `self as usize` otherwise
IntoLen(L, v) ==
    CASE L = "bool" -> IF v THEN 1 ELSE 0
      [] L = "VarLong" ->
             IF \A m \in 1..4 : v[m] = 0 /\ v[5] < 128
             THEN v[5] * 16777216 + v[6] * 65536 + v[7] * 256 + v[8]
             ELSE HugeLen
      [] OTHER -> IF v < 0 THEN HugeLen ELSE v

\* Serializable::write_to of a length
LenWrite(L, v) ==
    CASE L = "bool" -> [kind |-> "Ok", msg |-> "", bytes |-> <<IF v THEN 1 ELSE 0>>]
      [] L = "u8" -> [kind |-> "Ok", msg |-> "", bytes |-> <<v>>]
      [] L = "i16" -> [kind |-> "Ok", msg |-> "",
                       bytes |-> <<(v \div 256) % 256, v % 256>>]
      [] L = "i32" -> [kind |-> "Ok", msg |-> "",
                       bytes |-> <<(v \div 16777216) % 256, (v \div 65536) % 256,
                                   (v \div 256) % 256, v % 256>>]
      [] L = "VarInt" -> [kind |-> "Ok", msg |-> "", bytes |-> VarIntWrite(v)]
      [] L = "VarShort" -> VarShortWrite(v)
      [] L = "VarLong" -> [kind |-> "Ok", msg |-> "", bytes |-> VarLongWrite(v)]

\* Serializable::read_from of a length
LenRead(L, s) ==
    CASE L = "bool" ->
             Let(ReadFixed(s, 1), LAMBDA r :
                 IF r.kind # "Ok" THEN r ELSE ReadOk(r.val # 0, r.rest))
      [] L = "u8" -> ReadFixed(s, 1)
      [] L = "i16" ->
             Let(ReadFixed(s, 2), LAMBDA r :
                 IF r.kind # "Ok" THEN r
                 ELSE ReadOk(IF r.val >= 32768 THEN r.val - 65536 ELSE r.val, r.rest))
      [] L = "i32" -> I32Read(s)
      [] L = "VarInt" -> VarIntRead(s)
      [] L = "VarShort" -> VarShortRead(s)
      [] L = "VarLong" -> VarLongRead(s)

\* LenPrefixed<L, u8>::write_to and LenPrefixedBytes<L>::write_to: the
\* length made of data.len(), then the elements
LenPrefixedWrite(L, data) ==
    Let(LenWrite(L, FromLen(L, Len(data))), LAMBDA p :
        IF p.kind # "Ok" THEN p
        ELSE [kind |-> "Ok", msg |-> "", bytes |-> p.bytes \o data])

\* LenPrefixed<L, u8>::read_from: the length, Vec::with_capacity(len), then
\* len elements, each of which must be there
LenPrefixedRead(L, s) ==
    Let(LenRead(L, s), LAMBDA l :
        IF l.kind # "Ok" THEN l
        ELSE Let(IntoLen(L, l.val), LAMBDA len :
                 IF len = HugeLen THEN ReadErr("panic", "capacity overflow", l.rest)
                 ELSE IF Len(l.rest) < len
                 THEN ReadErr("IOError", "UnexpectedEof", <<>>)
                 ELSE ReadOk(SubSeq(l.rest, 1, len),
                             SubSeq(l.rest, len + 1, Len(l.rest)))))

\* LenPrefixedBytes<L>::read_from: the length, then
\* `buf.take(len as u64).read_to_end(&mut data)`, which ends without an
\* error where the input ends
LenPrefixedBytesRead(L, s) ==
    Let(LenRead(L, s), LAMBDA l :
        IF l.kind # "Ok" THEN l
        ELSE Let(IntoLen(L, l.val), LAMBDA len :
                 IF len = HugeLen THEN ReadErr("panic", "capacity overflow", l.rest)
                 ELSE IF Len(l.rest) < len THEN ReadOk(l.rest, <<>>)
                 ELSE ReadOk(SubSeq(l.rest, 1, len),
                             SubSeq(l.rest, len + 1, Len(l.rest)))))

\* The longest element list written
MaxElements == 257

\* The element lists written: of 0, 1 and 2 elements and around 256
ElementLists ==
    {[i \in 1..n |-> (3 * i) % 256] :
        n \in {0, 1, 2, MaxElements - 2, MaxElements - 1, MaxElements}}

\* LenPrefixed<L, u8>: write_to of data, then read_from on what was written
\* and t
CallLenPrefixed(L, data, t) ==
    /\ last' = Let(LenPrefixedWrite(L, data), LAMBDA enc :
         [op |-> "LenPrefixed", L |-> L, x |-> data, tail |-> t, enc |-> enc,
          dec |-> IF enc.kind = "Ok" THEN LenPrefixedRead(L, enc.bytes \o t)
                  ELSE ReadErr("none", "", t)])
    /\ CodecCall

\* LenPrefixedBytes<L>: write_to of data, then read_from on what was
\* written and t
CallLenPrefixedBytes(L, data, t) ==
    /\ last' = Let(LenPrefixedWrite(L, data), LAMBDA enc :
         [op |-> "LenPrefixedBytes", L |-> L, x |-> data, tail |-> t, enc |-> enc,
          dec |-> IF enc.kind = "Ok" THEN LenPrefixedBytesRead(L, enc.bytes \o t)
                  ELSE ReadErr("none", "", t)])
    /\ CodecCall

\* The Options written: None and Some at the edges of the VarInt widths
OptionValues == {{}, {0}, {127}, {128}, {-1}}

\* The named tags written: None, and Some with and without a name and
\* entries
NamedTagValues ==
    {{}, {[name |-> <<>>, tag |-> <<>>]}, {[name |-> <<97>>, tag |-> <<7>>]},
     {[name |-> <<97, 98>>, tag |-> <<0, 255>>]}}

\* Option<VarInt>: write_to of v, then read_from on what was written and t
CallOption(v, t) ==
    \E enc \in {OptionWrite(v)} :
        /\ last' = [op |-> "Option", x |-> v, tail |-> t, enc |-> enc,
                    dec |-> OptionRead(enc \o t)]
        /\ CodecCall

\* Option<nbt::NamedTag>: write_to of v, then read_from on what was written
\* and t
CallOptionNamedTag(v, t) ==
    \E enc \in {OptionNamedTagWrite(v)} :
        /\ last' = [op |-> "Option<NamedTag>", x |-> v, tail |-> t, enc |-> enc,
                    dec |-> OptionNamedTagRead(enc \o t)]
        /\ CodecCall

InitCodec ==
    /\ debug_build \in BOOLEAN
    /\ mode = "codec"
    /\ threshold = -1
    /\ wire = <<>>
    /\ pending = <<>>
    /\ last = NoRead
    /\ ConnIdle

\* The groups that have a table, and ids in and around them
TranslateGroups ==
    {<<"Handshaking", "Serverbound">>, <<"Status", "Serverbound">>,
     <<"Status", "Clientbound">>, <<"Login", "Clientbound">>}

NextCodec ==
    \/ \E x \in VarIntValues, t \in Tails : CallVarInt(x, t)
    \/ \E d \in VarLongValues, t \in Tails : CallVarLong(d, t)
    \/ \E v \in VarShortValues, t \in Tails : CallVarShort(v, t)
    \/ \E s \in ContinuationStreams(5) : CallVarIntRead(s)
    \/ \E s \in ContinuationStreams(10) : CallVarLongRead(s)
    \/ \E s \in StringStreams : CallStringRead(s)
    \/ \E v \in TableVersions \cup {5}, g \in TranslateGroups, id \in -1..6,
          to_internal \in BOOLEAN : CallTranslate(v, g[1], g[2], id, to_internal)
    \/ \E g \in {x \in TranslateGroups : x[1] # "Login"}, id \in -1..6,
          b \in FieldStrings \cup {I64(42)} : CallPacketById(g[1], g[2], id, b)
    \/ \E v \in OptionValues, t \in Tails : CallOption(v, t)
    \/ \E v \in NamedTagValues, t \in Tails : CallOptionNamedTag(v, t)
    \/ \E name \in DOMAIN ConditionalShapes, t \in Tails :
          \E p \in ShapePackets(name) : CallShape(name, p, t)

SpecCodec == InitCodec /\ [][NextCodec]_vars

----------------------------------------------------------------------------
(* Claims on the id translation and on packet_by_id, checked under SpecCodec *)

\* The ids a table declares on the side a translation starts from
Declared(version, state, dir, id, to_internal) ==
    /\ version \in TableVersions
    /\ \E k \in DOMAIN LinePairs(version, state, dir) :
          IF to_internal THEN LinePairs(version, state, dir)[k].wire = id
          ELSE LinePairs(version, state, dir)[k].internal = id

\* C12: in the table of a version, state and direction, an id that is
\* translated comes back as itself when the result is translated the other
\* way (wire -> internal -> wire and internal -> wire -> internal), and no two
\* lines of the table share a wire id or an internal id.
C12_TranslationBijective ==
    (last.op = "translate" /\ last.version \in TableVersions) =>
        /\ last.res.kind = "Ok" =>
              last.back.kind = "Ok" /\ last.back.val = last.id
        /\ LET pairs == LinePairs(last.version, last.state, last.dir)
           IN \A j, k \in DOMAIN pairs :
                 j # k => /\ pairs[j].wire # pairs[k].wire
                          /\ pairs[j].internal # pairs[k].internal

\* A wire id was translated to an internal id that is another number
C12_Witness ==
    /\ last.op = "translate"
    /\ last.to_internal
    /\ last.res.kind = "Ok"
    /\ last.res.val # last.id
    /\ last.back.val = last.id

\* C13: the translation of an id that the table of the requested version,
\* state and direction does not declare (or of any id for a version without
\* a table) panics: it gives no id.
C13_UnmappedIsFatal ==
    last.op = "translate" =>
        (~Declared(last.version, last.state, last.dir, last.id, last.to_internal)
            => last.res.kind = "panic")

\* A wire id that only the newer version's login table declares was asked
\* for in the older version
C13_Witness ==
    /\ last.op = "translate"
    /\ last.to_internal
    /\ last.version = 47
    /\ Declared(SUPPORTED_PROTOCOLS_0, last.state, last.dir, last.id, TRUE)
    /\ ~Declared(47, last.state, last.dir, last.id, TRUE)
    /\ last.res.kind = "panic"

\* C14: packet_by_id gives Ok(None) for a wire id that no shape of the state
\* and direction has, and fails only on bytes that are malformed for a known
\* shape.
C14_UnknownIdIsNone ==
    last.op = "packet_by_id" =>
        /\ last.id \notin DOMAIN IdTable(last.state, last.dir) =>
              last.res.kind = "None"
        /\ last.res.kind \notin {"Some", "None"} =>
              last.id \in DOMAIN IdTable(last.state, last.dir)

----------------------------------------------------------------------------
(* Claim on the error kinds of read_packet, checked under SpecFrame *)

\* Why a read_packet call failed, from how far it got: "transport" (the
\* stream gave out under the outer length or the frame body), "frame" (the
\* frame itself is malformed), "unknown id" (no shape for the packet id),
\* "field" (a field of a known shape did not decode inside a whole frame);
\* "none" for a success and for the leftover report.
FailureCause(raw, res) ==
    IF raw.kind # "Ok"
    THEN IF raw.stage \in {"length", "body"} /\ raw.kind = "IOError"
         THEN "transport" ELSE "frame"
    ELSE IF res.kind = "Ok" \/ res.msg = "Failed to read all of packet"
    THEN "none"
    ELSE IF raw.id \notin DOMAIN IdTable("Status", "Clientbound")
    THEN "unknown id"
    ELSE "field"

\* C15: the kind of the error of read_packet tells the causes of failure
\* apart: two calls that fail for different causes never return the same
\* kind, and no failure is a panic.
C15_KindTellsCause ==
    (last.op = "packet" /\ FailureCause(last.raw, last.res) # "none") =>
        /\ last.res.kind # "panic"
        /\ \A g \in PeerFrames(threshold) :
              LET cause == FailureCause(ReadRawPacketFrom(g, threshold),
                                        ReadPacket(g, threshold, "Status"))
              IN (cause # "none" /\ cause # FailureCause(last.raw, last.res))
                    => ReadPacket(g, threshold, "Status").kind # last.res.kind

----------------------------------------------------------------------------
(* Claims on the variable-width integers and on strings, under SpecCodec *)

\* Every byte of enc but the last has the continuation bit, the last has not
ContinuationOnAllButLast(enc) ==
    /\ enc # <<>>
    /\ \A i \in 1..(Len(enc) - 1) : enc[i] >= 128
    /\ enc[Len(enc)] < 128

\* C16: reading what VarInt::write_to wrote for an i32 x gives x and leaves
\* exactly the bytes that followed the encoding; the same for VarLong and
\* an i64.
C16_VarRoundTrip ==
    last.op \in {"VarInt", "VarLong"} =>
        /\ last.dec.kind = "Ok"
        /\ last.dec.val = last.x
        /\ last.dec.rest = last.tail

\* The least i64, ten bytes on the wire, was read back in front of more bytes
C16_Witness ==
    /\ last.op = "VarLong"
    /\ last.x = <<128, 0, 0, 0, 0, 0, 0, 0>>
    /\ Len(last.enc) = 10
    /\ last.tail # <<>>
    /\ last.dec.val = last.x

\* C17: VarInt::write_to writes 1 to 5 bytes, VarLong::write_to 1 to 10,
\* VarShort::write_to 2 or 3 for a value in 0..=0x7fffff; of the bytes of a
\* VarInt or VarLong only the last has the continuation bit clear.
C17_EncodedWidths ==
    /\ last.op = "VarInt" =>
          Len(last.enc) \in 1..5 /\ ContinuationOnAllButLast(last.enc)
    /\ last.op = "VarLong" =>
          Len(last.enc) \in 1..10 /\ ContinuationOnAllButLast(last.enc)
    /\ (last.op = "VarShort" /\ last.x >= 0 /\ last.x <= 8388607) =>
          last.enc.kind = "Ok" /\ Len(last.enc.bytes) \in {2, 3}

\* A negative i32 was written on five bytes
C17_Witness ==
    /\ last.op = "VarInt"
    /\ last.x < 0
    /\ Len(last.enc) = 5
    /\ last.enc[5] < 128

\* The first n bytes of s all have the continuation bit
ContinuationPrefix(s, n) == Len(s) >= n /\ \A i \in 1..n : s[i] >= 128

\* C18: VarInt::read_from on a stream whose first five bytes all have the
\* continuation bit returns the error "VarInt too big", whatever follows
\* them; VarLong::read_from likewise with ten bytes and "VarLong too big".
C18_TooBigAlwaysReported ==
    /\ (last.op = "VarInt::read_from" /\ ContinuationPrefix(last.input, 5)) =>
          last.res.kind = "Err" /\ last.res.msg = "VarInt too big"
    /\ (last.op = "VarLong::read_from" /\ ContinuationPrefix(last.input, 10)) =>
          last.res.kind = "Err" /\ last.res.msg = "VarLong too big"

\* C19: for v in 0..=0x7fffff reading what VarShort::write_to wrote gives v;
\* below 0x8000 the encoding is the two-byte big-endian short, from 0x8000
\* on it is three bytes and the top bit of the first is set; outside the
\* range write_to panics on its assertion with no byte written.
C19_VarShortRoundTrip ==
    last.op = "VarShort" =>
        IF last.x >= 0 /\ last.x <= 8388607
        THEN /\ last.enc.kind = "Ok"
             /\ last.dec.kind = "Ok"
             /\ last.dec.val = last.x
             /\ last.dec.rest = last.tail
             /\ last.x < 32768 =>
                   last.enc.bytes = <<last.x \div 256, last.x % 256>>
             /\ last.x >= 32768 =>
                   Len(last.enc.bytes) = 3 /\ last.enc.bytes[1] >= 128
        ELSE /\ last.enc.kind = "panic"
             /\ last.enc.bytes = <<>>

\* A value that needs the third byte was read back in front of more bytes
C19_Witness ==
    /\ last.op = "VarShort"
    /\ last.x >= 32768
    /\ last.x <= 8388607
    /\ Len(last.enc.bytes) = 3
    /\ last.tail # <<>>
    /\ last.dec.val = last.x

\* C20: String::read_from returns an error, not a panic and not a shorter
\* string, when the length prefix is negative or longer than the input or
\* when the bytes are not UTF-8; it returns Ok only with exactly as many
\* bytes as the prefix declares.
C20_StringErrors ==
    last.op = "String::read_from" =>
        \A l \in {VarIntRead(last.input)} :
            l.kind = "Ok" =>
                /\ (\/ l.val < 0
                    \/ l.val > Len(l.rest)
                    \/ ~Utf8Valid(SubSeq(l.rest, 1, l.val)))
                      => last.res.kind \in {"Err", "IOError"}
                /\ last.res.kind = "Ok" => Len(last.res.val) = l.val

----------------------------------------------------------------------------
(* Position: three coordinates packed into one big-endian u64.  The layout  *)
(* is chosen by current_protocol_version() at the time of the call.         *)

\* Bit i of `v as u64` for an i32 v (sign extension above bit 30)
I32Bit(v, i) == IF i >= 31 THEN (IF v < 0 THEN 1 ELSE 0) ELSE (v \div Pow2(i)) % 2

\* Version::from_id(protocol_version as u32) < Version::V1_14
PreV1_14(version) == VersionLess(FromId(version), "V1_14")

\* Bit i of the word Position::write_to builds: x & 0x3FFFFFF at 38, and
\* y & 0xFFF at 26 over z & 0x3FFFFFF (pre: the version is before V1_14), or
\* z & 0x3FFFFFF at 12 over y & 0xFFF
PositionWordBit(pre, x, y, z, i) ==
    IF i >= 38 THEN I32Bit(x, i - 38)
    ELSE IF pre
    THEN IF i >= 26 THEN I32Bit(y, i - 26) ELSE I32Bit(z, i)
    ELSE IF i >= 12 THEN I32Bit(z, i - 12) ELSE I32Bit(y, i)

\* write_u64::<BigEndian>(pos): the eight bytes of the word
PositionWordBytes(pre, x, y, z) ==
    [m \in 1..8 |->
        LET lo == 8 * (8 - m)
            B(j) == PositionWordBit(pre, x, y, z, lo + j)
        IN B(0) + 2 * B(1) + 4 * B(2) + 8 * B(3) + 16 * B(4) + 32 * B(5)
           + 64 * B(6) + 128 * B(7)]

\* (mutant) the newer layout whatever the version
PositionWriteNewLayout(version, x, y, z) == PositionWordBytes(FALSE, x, y, z)

\* Position::write_to
PositionWrite(version, x, y, z) ==
    Let(PreV1_14(version), LAMBDA pre : PositionWordBytes(pre, x, y, z))

\* The n bits of the word d from bit lo on, as an unsigned number
RECURSIVE UnsignedField(_, _, _)
UnsignedField(d, lo, n) ==
    IF n = 0 THEN 0 ELSE BitOf(d, lo) + 2 * UnsignedField(d, lo + 1, n - 1)

\* The same bits with the topmost as the sign: `<< a >> b` on the i64, an
\* arithmetic shift
SignedField(d, lo, n) ==
    UnsignedField(d, lo, n - 1) - BitOf(d, lo + n - 1) * Pow2(n - 1)

\* Position::read_from.  In the older layout y is `(pos >> 26) & 0xFFF`, a
\* mask and no sign extension.
PositionRead(version, s) ==
    Let(ReadFixed(s, 8), LAMBDA r :
        IF r.kind # "Ok" THEN r
        ELSE IF PreV1_14(version)
        THEN ReadOk([x |-> SignedField(r.val, 38, 26),
                     y |-> UnsignedField(r.val, 26, 12),
                     z |-> SignedField(r.val, 0, 26)], r.rest)
        ELSE ReadOk([x |-> SignedField(r.val, 38, 26),
                     y |-> SignedField(r.val, 0, 12),
                     z |-> SignedField(r.val, 12, 26)], r.rest))

----------------------------------------------------------------------------
(* SpecVersion: Conn::new stores the version it is given in                 *)
(* CURRENT_PROTOCOL_VERSION; Version::from_id and the Position codec are    *)
(* called one at a time, `last` holds the call and what it gave.            *)

\* Versions given to Conn::new: V1_16, the first and the last protocol of
\* the layout change, and a listed protocol without a bucket
PositionVersions == {SUPPORTED_PROTOCOLS_0, 477, 404, 74}

\* Coordinates at the edges of the fields
PositionYs == {-2048, -1366, -1, 0, 1, 1365, 2047}
PositionZs == {-33554432, -22369622, -1, 0, 1, 22369621, 33554431}
PositionCoords ==
    {<<IF (y + z) % 2 = 0 THEN -33554432 ELSE 33554431, y, z>> :
        y \in PositionYs, z \in PositionZs}

\* Protocol numbers at the edges of the arms of from_id
VersionIds ==
    {0, 4, 5, 6, 46, 47, 48, 74, 106, 107, 110, 111, 209, 210, 211, 314, 315,
     316, 317, 334, 335, 340, 341, 392, 393, 404, 405, 451, 452, 476, 477,
     498, 499, 572, 573, 578, 579, 734, 735, 754, 755, 756, 2147483647, -1,
     -2147483647 - 1}
    \cup {SUPPORTED_PROTOCOLS[i] : i \in DOMAIN SUPPORTED_PROTOCOLS}

\* Position::new(x, y, z).write_to, then Position::read_from on the bytes
CallPosition(x, y, z) ==
    \E enc \in {PositionWrite(current_protocol_version, x, y, z)} :
        /\ last' = [op |-> "Position", version |-> current_protocol_version,
                    x |-> x, y |-> y, z |-> z, enc |-> enc,
                    dec |-> PositionRead(current_protocol_version, enc)]
        /\ CodecCall

\* Version::from_id(p as u32) and is_supported() of what it gives
CallFromId(p) ==
    /\ last' = [op |-> "from_id", id |-> p, res |-> FromId(p),
                supported |-> IsSupported(FromId(p))]
    /\ CodecCall

InitVersion ==
    /\ debug_build \in BOOLEAN
    /\ mode = "codec"
    /\ threshold = -1
    /\ wire = <<>>
    /\ pending = <<>>
    /\ last = NoRead
    /\ ConnIdle

NextVersion ==
    \/ \E v \in PositionVersions, ok \in BOOLEAN : ConnNew(1, v, ok)
    \/ \E c \in PositionCoords : CallPosition(c[1], c[2], c[3])
    \/ \E p \in VersionIds : CallFromId(p)

SpecVersion == InitVersion /\ [][NextVersion]_vars

----------------------------------------------------------------------------
(* Claims on Position and on the versions, checked under SpecVersion *)

\* C21: a Position with x and z in the signed 26-bit range and y in
\* -2048..2047 that is written and read back under one current protocol
\* version comes back with the same x, y and z, in the layout before V1_14
\* and in the layout from V1_14 on.
C21_PositionRoundTrip ==
    last.op = "Position" =>
        /\ last.dec.kind = "Ok"
        /\ last.dec.val = [x |-> last.x, y |-> last.y, z |-> last.z]

\* The encoding of the coordinate of the last call in the other layout
OtherLayouts ==
    {PositionWrite(v, last.x, last.y, last.z) :
        v \in {w \in PositionVersions : PreV1_14(w) # PreV1_14(last.version)}}

\* C22 as stated: the two layouts give different words for every coordinate.
C22_LayoutsAlwaysDiffer ==
    last.op = "Position" => last.enc \notin OtherLayouts

\* The y and z whose 38 bits are one two-bit pattern repeated: moving the
\* 12 bits of y from the top of the 38 to the bottom leaves them as they are
PeriodicYZ == {<<0, 0>>, <<1365, 22369621>>, <<-1366, -22369622>>, <<-1, -1>>}

\* C22 (amended): the two layouts give different words for a coordinate
\* exactly when its (y, z) is not one of (0, 0), (1365, 22369621),
\* (-1366, -22369622), (-1, -1); for these four they give the same word.
C22_LayoutsDifferUnlessPeriodic ==
    last.op = "Position" =>
        IF <<last.y, last.z>> \in PeriodicYZ
        THEN OtherLayouts = {last.enc}
        ELSE last.enc \notin OtherLayouts

\* A coordinate was written whose word in the other layout is another one
C22_Witness ==
    /\ last.op = "Position"
    /\ last.y = -1
    /\ last.z = 1
    /\ OtherLayouts # {}
    /\ last.enc \notin OtherLayouts

\* p <= q of two u32 carried as i32
U32Le(p, q) == IF (p < 0) = (q < 0) THEN p <= q ELSE q < 0

\* The ranges of the buckets; hi = -1 is u32::MAX
BucketRanges ==
    <<[lo |-> 0, hi |-> 4, b |-> "Old"], [lo |-> 5, hi |-> 5, b |-> "V1_7"],
      [lo |-> 47, hi |-> 47, b |-> "V1_8"], [lo |-> 107, hi |-> 110, b |-> "V1_9"],
      [lo |-> 210, hi |-> 210, b |-> "V1_10"], [lo |-> 315, hi |-> 316, b |-> "V1_11"],
      [lo |-> 335, hi |-> 340, b |-> "V1_12"], [lo |-> 393, hi |-> 404, b |-> "V1_13"],
      [lo |-> 477, hi |-> 498, b |-> "V1_14"], [lo |-> 573, hi |-> 578, b |-> "V1_15"],
      [lo |-> 735, hi |-> 754, b |-> "V1_16"], [lo |-> 755, hi |-> -1, b |-> "New"]>>

RangesOf(p) ==
    {k \in DOMAIN BucketRanges :
        U32Le(BucketRanges[k].lo, p) /\ U32Le(p, BucketRanges[k].hi)}

\* C26: Version::from_id gives the bucket of the one range that holds the
\* number and Other when no range holds it; among numbers not mapped to
\* Other a greater number never gets a lesser bucket; is_supported is false
\* exactly for Old, New and Other.
C26_BucketOfVersion ==
    last.op = "from_id" =>
        /\ Cardinality(RangesOf(last.id)) <= 1
        /\ \A k \in RangesOf(last.id) : last.res = BucketRanges[k].b
        /\ RangesOf(last.id) = {} => last.res = "Other"
        /\ \A q \in VersionIds :
              (last.res # "Other" /\ FromId(q) # "Other" /\ U32Le(last.id, q))
                  => ~VersionLess(FromId(q), last.res)
        /\ last.supported <=> last.res \notin {"Old", "New", "Other"}

\* The last protocol of V1_14 was mapped
C26_Witness ==
    /\ last.op = "from_id"
    /\ last.id = 498
    /\ last.res = "V1_14"
    /\ last.supported

\* C27: every protocol listed in SUPPORTED_PROTOCOLS is mapped by
\* Version::from_id to a bucket that is_supported.
C27_ListedAreSupported ==
    (/\ last.op = "from_id"
     /\ \E i \in DOMAIN SUPPORTED_PROTOCOLS : SUPPORTED_PROTOCOLS[i] = last.id)
        => last.supported

\* C28: SUPPORTED_PROTOCOLS is strictly descending, and
\* current_protocol_version() is its first entry until a Conn::new stores
\* another version.
C28_CurrentIsNewest ==
    /\ \A i \in 1..(Len(SUPPORTED_PROTOCOLS) - 1) :
          SUPPORTED_PROTOCOLS[i] > SUPPORTED_PROTOCOLS[i + 1]
    /\ current_protocol_version = SUPPORTED_PROTOCOLS[1]
    /\ [][current_protocol_version' # current_protocol_version =>
            \E v \in PositionVersions, ok \in BOOLEAN : ConnNew(1, v, ok)]_vars

\* A Position was written under the version the program starts with, no
\* connection having been made
C28_Witness ==
    /\ last.op = "Position"
    /\ last.version = SUPPORTED_PROTOCOLS[1]
    /\ current_protocol_version = SUPPORTED_PROTOCOLS[1]
    /\ \A h \in Handles : conn[h] = NoConn
    /\ \A i \in 2..Len(SUPPORTED_PROTOCOLS) :
          SUPPORTED_PROTOCOLS[i] < current_protocol_version

----------------------------------------------------------------------------
(* SpecStatus: Game::connect_to.  It probes the server with Conn::new and   *)
(* do_status on the default protocol version, chooses the protocol, and     *)
(* hands it to Server::connect (server/mod.rs, outside the modelled files:  *)
(* only its outcome is modelled).  The default version is the one           *)
(* CURRENT_PROTOCOL_VERSION holds when the probe is over: Conn::new stored  *)
(* it, and one connect_to runs at a time.                                   *)

\* What a status server can answer: a response with each document of the
\* table or with a text that is not JSON, a pong with the marker or with
\* another payload, an id outside the table, nothing
StatusFrames ==
    {Framed(<<0>> \o FieldWrite("String", StatusDocs[k].text)) : k \in DOMAIN StatusDocs}
    \cup {Framed(<<0>> \o FieldWrite("String", <<123>>)),
          Framed(<<1>> \o I64(42)), Framed(<<1>> \o I64(7)), Framed(<<5>>), <<>>}

\* What Server::connect gives: a server, an error, or a panic of its thread
ConnectOutcomes == {"Ok", "Err", "panic"}

\* connect_to from the choice of the protocol on: the version check, then
\* Server::connect on a thread that is joined; self.server is set only when
\* it gave a server.  probe is what the probe gave.
ConnectDecide(h, probe, protocol_version, outcome) ==
    IF ~IsSupported(FromId(protocol_version))
    THEN /\ pc' = [pc EXCEPT ![h] = "refused"]
         /\ local' = [local EXCEPT ![h] =
                [result |-> "Err", msg |-> "The server's version isn't supported!",
                 probe |-> probe, protocol |-> protocol_version,
                 connect_called |-> FALSE, server |-> "None"]]
    ELSE /\ pc' = [pc EXCEPT ![h] = IF outcome = "Ok" THEN "connected" ELSE "failed"]
         /\ local' = [local EXCEPT ![h] =
                [result |-> IF outcome = "Ok" THEN "Ok" ELSE "Err",
                 msg |-> IF outcome = "panic" THEN "Unknown" ELSE "",
                 probe |-> probe, protocol |-> protocol_version,
                 connect_called |-> TRUE,
                 server |-> IF outcome = "Ok" THEN "Some" ELSE "None"]]

\* connect_to once do_status returned: the reported protocol on Ok, the
\* default on Err (a panic of do_status ends connect_to with it)
ConnectAfterProbe(h, outcome) ==
    /\ pc[h] = "done"
    /\ local[h].result # "panic"
    /\ ConnectDecide(h, [result |-> local[h].result,
                         default |-> current_protocol_version,
                         status |-> IF local[h].result = "Ok"
                                    THEN local[h].status ELSE <<>>],
                     IF local[h].result = "Ok"
                     THEN local[h].status.version.protocol
                     ELSE current_protocol_version, outcome)
    /\ UNCHANGED <<debug_build, current_protocol_version, conn, ciphers, locks, sockets>>
    /\ UNCHANGED frameVars

\* connect_to when Conn::new itself fails (the version is stored, the
\* connection is refused): the default is chosen
ConnectUnprobed(h, v, outcome) ==
    /\ FreeSlot(h)
    /\ \A g \in Handles : pc[g] \notin {"status_response", "status_pong", "done"}
    /\ current_protocol_version' = v
    /\ ConnectDecide(h, [result |-> "IOError", default |-> v, status |-> <<>>],
                     v, outcome)
    /\ UNCHANGED <<debug_build, conn, ciphers, locks, sockets>>
    /\ UNCHANGED frameVars

\* Conn::new of connect_to succeeds
ConnectProbe(h, v) ==
    /\ \A g \in Handles : pc[g] \notin {"status_response", "status_pong", "done"}
    /\ \A g \in Handles : ~Live(g)
    /\ ConnNew(h, v, TRUE)

\* The default versions of a game: the newest, an old one, a listed one
\* without a bucket
DefaultVersions == {SUPPORTED_PROTOCOLS_0, 47, 74}

NextStatus ==
    \/ \E h \in Handles, v \in DefaultVersions : ConnectProbe(h, v)
    \/ \E h \in Handles, n \in 0..2 : DoStatusSend(h, n)
    \/ \E h \in Handles, f \in StatusFrames, ok \in BOOLEAN : DoStatusResponse(h, f, ok)
    \/ \E h \in Handles, f \in StatusFrames : DoStatusPong(h, f)
    \/ \E h \in Handles, o \in ConnectOutcomes : ConnectAfterProbe(h, o)
    \/ \E h \in Handles, v \in DefaultVersions, o \in ConnectOutcomes :
          ConnectUnprobed(h, v, o)

SpecStatus == InitConn /\ [][NextStatus]_vars

----------------------------------------------------------------------------
(* Claims on do_status and connect_to, checked under SpecStatus *)

\* The plain bytes written to a socket so far
OutPlain(sock) == [k \in DOMAIN sock.out |-> sock.out[k].plain]

\* The frames of the exchange on the wire, for host "lo" and port 25565:
\* length, id 0, the version, the host, the port, next = 1; length, id 0;
\* length, id 1, the marker 42
HandshakeFrame(v) ==
    IF v = 754 THEN <<9, 0, 242, 5, 2, 108, 111, 99, 221, 1>>
    ELSE <<8, 0, v, 2, 108, 111, 99, 221, 1>>
StatusRequestFrame == <<1, 0>>
StatusPingFrame == <<9, 1, 0, 0, 0, 0, 0, 0, 0, 42>>

\* The steps a call of do_status is made of
StatusSteps ==
    {<<"idle", "status_response">>, <<"idle", "done">>,
     <<"status_response", "status_pong">>, <<"status_response", "done">>,
     <<"status_pong", "done">>}

\* C23: do_status writes the Handshake (version, host, port, next 1) in
\* Handshaking, sets the state to Status, writes the StatusRequest, reads a
\* packet, writes the StatusPing, reads a packet, in this order; it ends at
\* the first failure, a first packet that is no StatusResponse ends it with
\* "Wrong packet" and no StatusPing written, and nothing is written twice.
C23_StatusInOrder ==
    [][\A h \in Handles :
        (Live(h) /\ pc'[h] # pc[h]) =>
            LET sent  == OutPlain(sockets[conn[h].stream])
                sent2 == OutPlain(sockets'[conn[h].stream])
                hs    == HandshakeFrame(conn[h].protocol_version)
            IN /\ <<pc[h], pc'[h]>> \in StatusSteps
               /\ <<pc[h], pc'[h]>> = <<"idle", "status_response">> =>
                     /\ conn[h].state = "Handshaking"
                     /\ conn'[h].state = "Status"
                     /\ sent = <<>>
                     /\ sent2 = hs \o StatusRequestFrame
               /\ <<pc[h], pc'[h]>> = <<"idle", "done">> =>
                     sent = <<>> /\ sent2 \in {<<>>, hs}
               /\ <<pc[h], pc'[h]>> = <<"status_response", "status_pong">> =>
                     /\ sent2 = sent \o StatusPingFrame
                     /\ \E f \in StatusFrames : \E r \in {ReadWhole(h, f)} :
                           /\ r.kind = "Ok"
                           /\ r.packet.name = "StatusResponse"
                           /\ sockets'[conn[h].stream].inbox = r.rest
               /\ pc'[h] = "done" /\ pc[h] # "idle" => sent2 = sent
               /\ pc[h] = "status_response" =>
                     \/ pc'[h] = "done" /\ local'[h].msg = "Wrong packet"
                     \/ \A f \in StatusFrames : \A r \in {ReadWhole(h, f)} :
                           (r.kind = "Ok" /\ r.packet.name # "StatusResponse")
                              => \A ok \in BOOLEAN : ~DoStatusResponse(h, f, ok)]_vars

\* A probe ended with "Wrong packet" and only the Handshake and the
\* StatusRequest on the wire
C23_Witness ==
    \E h \in Handles :
        /\ pc[h] = "done"
        /\ local[h].msg = "Wrong packet"
        /\ sockets # <<>>
        /\ OutPlain(sockets[Len(sockets)])
              = HandshakeFrame(SUPPORTED_PROTOCOLS_0) \o StatusRequestFrame

\* C24: do_status gives Ok only when the packet that answers the ping is a
\* StatusPong with the payload 42; a StatusPong with another payload is an
\* error.
C24_PongMustMatch ==
    [][\A h \in Handles :
        (pc[h] = "status_pong" /\ pc'[h] = "done") =>
            \A f \in StatusFrames \ {Framed(<<1>> \o I64(42))} :
                (sockets[conn[h].stream].inbox = <<>> /\ DoStatusPong(h, f))
                    => local'[h].result # "Ok"]_vars

\* The member k2 of the member k1 of val is there with the type t
HasTyped(val, k1, k2, t) ==
    /\ val.t = "object" /\ k1 \in DOMAIN val.m
    /\ val.m[k1].t = "object" /\ k2 \in DOMAIN val.m[k1].m
    /\ val.m[k1].m[k2].t = t

HasRequired(val) ==
    /\ HasTyped(val, "version", "name", "string")
    /\ HasTyped(val, "version", "protocol", "number")
    /\ HasTyped(val, "players", "max", "number")
    /\ HasTyped(val, "players", "online", "number")
    /\ "description" \in DOMAIN val.m

\* The i64 of an i32, as its eight bytes
Widen(n) ==
    [m \in 1..8 |-> IF m <= 4 THEN (IF n < 0 THEN 255 ELSE 0)
                    ELSE (n \div Pow2(8 * (8 - m))) % 256]

\* C25: once both packets were read, do_status gives Ok exactly when the
\* document has version.name, version.protocol, players.max, players.online
\* and description, and "Invalid status" when one of them is missing or of
\* another type; without modinfo and forgeData the mod list is empty and
\* there is no FML network version; players.max and players.online of the
\* result are the numbers of the document.
C25_StatusFromJson ==
    [][\A h \in Handles :
        (/\ pc[h] = "status_pong" /\ pc'[h] = "done"
         /\ \E f \in StatusFrames :
               /\ ReadWhole(h, f).kind = "Ok"
               /\ ReadWhole(h, f).packet.name = "StatusPong"
               /\ DoStatusPong(h, f)
         /\ JsonFromStr(local[h].status).valid) =>
            LET val == JsonFromStr(local[h].status).value
                r   == local'[h]
            IN /\ r.result = "Ok" <=> HasRequired(val)
               /\ ~HasRequired(val) => r.result = "Err" /\ r.msg = "Invalid status"
               /\ (/\ r.result = "Ok"
                   /\ "modinfo" \notin DOMAIN val.m
                   /\ "forgeData" \notin DOMAIN val.m) =>
                      r.status.forge_mods = <<>> /\ r.status.fml_network_version = {}
               /\ r.result = "Ok" =>
                     /\ Widen(r.status.players.max) = val.m["players"].m["max"].d
                     /\ Widen(r.status.players.online) = val.m["players"].m["online"].d]_vars

\* C29: connect_to calls Server::connect only with a protocol whose bucket
\* is supported: the protocol is the one the probe reported when the probe
\* gave Ok and the default otherwise, a protocol in Old, New or Other (a
\* negative one is in New) ends connect_to with an error before
\* Server::connect, and self.server is set only when Server::connect gave a
\* server.
C29_OnlySupportedSessions ==
    \A h \in Handles :
        pc[h] \in {"connected", "refused", "failed"} =>
            LET r == local[h]
                unsupported == FromId(r.protocol) \in {"Old", "New", "Other"}
            IN /\ r.connect_called => ~unsupported
               /\ unsupported =>
                     pc[h] = "refused" /\ r.result = "Err" /\ ~r.connect_called
               /\ r.server = "Some" <=> pc[h] = "connected"
               /\ pc[h] = "connected" => r.connect_called /\ r.result = "Ok"
               /\ r.probe.result = "Ok" =>
                     r.protocol = r.probe.status.version.protocol
               /\ r.probe.result # "Ok" => r.protocol = r.probe.default

\* The probe gave Ok with a negative protocol and connect_to refused it
C29_Witness ==
    \E h \in Handles :
        /\ pc[h] = "refused"
        /\ local[h].probe.result = "Ok"
        /\ local[h].protocol < 0
        /\ ~local[h].connect_called
        /\ local[h].server = "None"

----------------------------------------------------------------------------
(* Claim on the conditional fields, checked under SpecCodec *)

\* The fields of a shape whose `when` clause holds on the packet
PresentFields(fields, packet) ==
    {i \in DOMAIN fields : When(fields[i].when, packet)}

\* C30: write puts exactly the fields whose `when` clause holds, in declared
\* order; packet_by_id on these bytes decides on each field from the fields
\* read before it, gives a packet with the same fields present and the same
\* values in them, and takes exactly the bytes written (the `when` clauses
\* of the shapes look at earlier fields only).
C30_ShapeRoundTrip ==
    last.op = "shape" =>
        LET fields  == ConditionalShapes[last.name]
            present == PresentFields(fields, last.packet)
            written == SelectSeq(fields, LAMBDA f : When(f.when, last.packet))
        IN /\ last.enc = FieldsWrite([i \in DOMAIN written |-> written[i].type],
                                     [i \in DOMAIN written |->
                                         last.packet[written[i].name]])
           /\ last.dec.kind = "Ok"
           /\ last.dec.rest = last.tail
           /\ PresentFields(fields, last.dec.val) = present
           /\ \A i \in present :
                 last.dec.val[fields[i].name] = last.packet[fields[i].name]

----------------------------------------------------------------------------
(* SpecCrypt: the handles of one connection write packets, read from the    *)
(* stream and call enable_encyption at the same time.  enable_encyption is  *)
(* cut where it can wait: before the write guard of the read cipher's cell  *)
(* and before the write guard of the write cipher's cell; it never takes    *)
(* the send lock.  Read for Conn is cut where stream.read waits, with the   *)
(* read cipher's guard held.                                                *)

MaxInbox == 2        \* bytes of the peer waiting in the stream
MaxCryptSends == 1   \* write_packet calls on the connection
MaxCryptInstalls == 1  \* enable_encyption calls on the connection

\* What the peer sends in one piece
PeerBytes == {<<0>>, <<0, 255>>}

\* The keys of enable_encyption: one of 16 bytes and one that is too short
CryptKeys == {[len |-> 16, k |-> 1], [len |-> 15, k |-> 1]}

\* The packet written while the ciphers are installed
CryptPackets == {[id |-> 0, fields |-> <<7, 255>>]}

\* enable_encyption(key) up to its first guard: both ciphers are built (a
\* key of the wrong length panics in the unwrap)
EncBegin(h, key) ==
    /\ Idle(h)
    /\ ciphers[conn[h].read_cipher].instance < MaxCryptInstalls
    /\ \A g \in Family(h) : pc[g] \notin {"enc_read", "enc_write"}
    /\ IF key.len # 16
       THEN /\ pc' = [pc EXCEPT ![h] = "done"]
            /\ local' = [local EXCEPT ![h] = [result |-> "panic", msg |-> "InvalidLength"]]
            /\ conn' = [conn EXCEPT ![h] = NoConn]
       ELSE /\ pc' = [pc EXCEPT ![h] = "enc_read"]
            /\ local' = [local EXCEPT ![h] = [key |-> key.k]]
            /\ UNCHANGED conn
    /\ UNCHANGED <<debug_build, current_protocol_version, ciphers, locks, sockets>>
    /\ UNCHANGED frameVars

\* `self.read_cipher.clone().write().unwrap().replace(read_cipher)`
EncRead(h) ==
    /\ Live(h) /\ pc[h] = "enc_read"
    /\ ciphers[conn[h].read_cipher].holder = 0
    /\ ciphers' = [ciphers EXCEPT ![conn[h].read_cipher] =
                      NewCipher(local[h].key, @.instance + 1)]
    /\ pc' = [pc EXCEPT ![h] = "enc_write"]
    /\ UNCHANGED <<debug_build, current_protocol_version, conn, locks, sockets, local>>
    /\ UNCHANGED frameVars

\* `self.write_cipher.clone().write().unwrap().replace(write_cipher)`
EncWrite(h) ==
    /\ Live(h) /\ pc[h] = "enc_write"
    /\ ciphers[conn[h].write_cipher].holder = 0
    /\ ciphers' = [ciphers EXCEPT ![conn[h].write_cipher] =
                      NewCipher(local[h].key, @.instance + 1)]
    /\ pc' = [pc EXCEPT ![h] = "idle"]
    /\ local' = [local EXCEPT ![h] = <<>>]
    /\ UNCHANGED <<debug_build, current_protocol_version, conn, locks, sockets>>
    /\ UNCHANGED frameVars

\* The peer sends bytes
PeerWrites(s, bytes) ==
    /\ s \in DOMAIN sockets
    /\ Len(sockets[s].inbox) + Len(bytes) <= MaxInbox
    /\ sockets' = [sockets EXCEPT ![s].inbox = @ \o bytes]
    /\ UNCHANGED <<debug_build, current_protocol_version, conn, ciphers, locks, pc, local>>
    /\ UNCHANGED frameVars

\* Read for Conn, read(buf) up to stream.read: the guard of the read
\* cipher's cell is taken
ReadCall(h) ==
    /\ Idle(h)
    /\ ciphers[conn[h].read_cipher].holder = 0
    /\ ciphers' = [ciphers EXCEPT ![conn[h].read_cipher].holder = h]
    /\ pc' = [pc EXCEPT ![h] = "stream_read"]
    /\ UNCHANGED <<debug_build, current_protocol_version, conn, locks, sockets, local>>
    /\ UNCHANGED frameVars

\* stream.read returns r bytes (0 at the end of the stream): they are
\* decrypted when the cell holds a cipher, the guard is dropped, Ok(r)
ReadReturn(h, r) ==
    /\ Live(h) /\ pc[h] = "stream_read"
    /\ r \in 0..Len(sockets[conn[h].stream].inbox)
    /\ r = 0 <=> sockets[conn[h].stream].inbox = <<>>
    /\ \E d \in {ConnRead(ciphers[conn[h].read_cipher],
                          SubSeq(sockets[conn[h].stream].inbox, 1, r))} :
          /\ ciphers' = [ciphers EXCEPT ![conn[h].read_cipher] =
                            [d[2] EXCEPT !.holder = 0]]
          /\ local' = [local EXCEPT ![h] = [result |-> "Ok", n |-> r, buf |-> d[1]]]
    /\ sockets' = [sockets EXCEPT ![conn[h].stream].inbox =
                      SubSeq(@, r + 1, Len(@))]
    /\ pc' = [pc EXCEPT ![h] = "idle"]
    /\ UNCHANGED <<debug_build, current_protocol_version, conn, locks>>
    /\ UNCHANGED frameVars

\* stream.read fails: the error is returned, nothing is decrypted
ReadFails(h) ==
    /\ Live(h) /\ pc[h] = "stream_read"
    /\ ciphers' = [ciphers EXCEPT ![conn[h].read_cipher].holder = 0]
    /\ local' = [local EXCEPT ![h] = [result |-> "IOError", n |-> 0, buf |-> <<>>]]
    /\ pc' = [pc EXCEPT ![h] = "idle"]
    /\ UNCHANGED <<debug_build, current_protocol_version, conn, locks, sockets>>
    /\ UNCHANGED frameVars

\* One connection without compression and without ciphers
InitCrypt ==
    /\ InitSend
    /\ ~debug_build
    /\ conn[1].compression_threshold = -1
    /\ ciphers = <<NoCipher, NoCipher>>

NextCrypt ==
    \/ \E h, g \in Handles : ConnClone(h, g)
    \/ \E h \in Handles, key \in CryptKeys : EncBegin(h, key)
    \/ \E h \in Handles : EncRead(h)
    \/ \E h \in Handles : EncWrite(h)
    \/ \E s \in {1}, bytes \in PeerBytes : PeerWrites(s, bytes)
    \/ \E h \in Handles : ReadCall(h)
    \/ \E h \in Handles, r \in 0..MaxInbox : ReadReturn(h, r)
    \/ \E h \in Handles : ReadFails(h)
    \/ \E h \in Handles, p \in CryptPackets :
          Idle(h) /\ Begun(conn[h].stream) < MaxCryptSends /\ WriteBegin(h, p)
    \/ \E h \in Handles : WriteLock(h)
    \/ \E h \in Handles, ok \in BOOLEAN : WriteByte(h, ok)
    \/ \E h \in Handles : WriteEnd(h)

SpecCrypt == InitCrypt /\ [][NextCrypt]_vars

----------------------------------------------------------------------------
(* Claims on the ciphers, checked under SpecCrypt *)

\* A cipher apart from who holds the guard of its cell
Unheld(c) == [c EXCEPT !.holder = 0]

\* The bytes data through the cell c: as they are when the cell is empty,
\* encrypted or decrypted by its cipher otherwise; and the cell afterwards
Through(c, data, encrypt) ==
    IF ~c.some THEN <<data, c>>
    ELSE IF encrypt THEN Encrypt(c, data, <<>>) ELSE Decrypt(c, data, <<>>)

\* The step is a failed write of handle h
FailedWrite(h) ==
    /\ pc[h] = "write" /\ pc'[h] = "idle"
    /\ local[h].sent < Len(local[h].frame)

\* In this step the write cipher of h's connection stays in step with the
\* stream: the bytes the stream took were transformed by it, one for one,
\* and it has processed these bytes and no others
WriteInStep(h) ==
    LET out   == sockets[conn[h].stream].out
        out2  == sockets'[conn[h].stream].out
        added == SubSeq(out2, Len(out) + 1, Len(out2))
        w     == ciphers[conn[h].write_cipher]
        w2    == ciphers'[conn[h].write_cipher]
    IN IF w2.instance # w.instance
       THEN added = <<>>
       ELSE \E e \in {Through(w, [k \in DOMAIN added |-> added[k].plain], TRUE)} :
               /\ [k \in DOMAIN added |-> added[k].byte] = e[1]
               /\ Unheld(w2) = Unheld(e[2])

\* In this step the read cipher of h's connection stays in step with the
\* stream: it has processed the bytes taken from the stream and no others
ReadInStep(h) ==
    LET inbox  == sockets[conn[h].stream].inbox
        inbox2 == sockets'[conn[h].stream].inbox
        r      == IF Len(inbox2) < Len(inbox) THEN Len(inbox) - Len(inbox2) ELSE 0
        c      == ciphers[conn[h].read_cipher]
        c2     == ciphers'[conn[h].read_cipher]
    IN IF c2.instance # c.instance
       THEN inbox2 = inbox
       ELSE /\ Unheld(c2) = Unheld(Through(c, SubSeq(inbox, 1, r), FALSE)[2])
            /\ \A g \in Handles :
                  (pc[g] = "stream_read" /\ pc'[g] = "idle" /\ local'[g].result = "Ok")
                     => /\ local'[g].n = r
                        /\ Through(c, SubSeq(inbox, 1, r), FALSE)[1] = local'[g].buf

SentFrameEndingAt(o, j) == [k \in 1..o[j].of |-> o[j - o[j].of + k].byte]

\* C34: every whole frame on the wire went out either as it is or encrypted
\* from its first byte to its last by one cipher, also when enable_encyption
\* runs on one handle while a clone is inside write_packet: no cipher takes
\* effect between the outer length and the end of the body.
C34_FramesWhollyEncrypted ==
    \A s \in DOMAIN sockets :
        \A j \in DOMAIN sockets[s].out :
            sockets[s].out[j].i = sockets[s].out[j].of =>
                LET plain == FrameEndingAt(sockets[s].out, j)
                    sent  == SentFrameEndingAt(sockets[s].out, j)
                IN \/ sent = plain
                   \/ \E key \in {k.k : k \in CryptKeys}, reg \in 0..255 :
                         Encrypt([NewCipher(key, 1) EXCEPT !.reg = reg],
                                 plain, <<>>)[1] = sent

\* C35: a handle inside enable_encyption never has to wait for the peer: when
\* it is about to install the read cipher and no bytes of the peer wait in
\* the stream, no reader holds the guard of the read cipher's cell.
C35_EnableNeverWaitsForPeer ==
    \A h \in Handles :
        (/\ Live(h) /\ pc[h] = "enc_read"
         /\ sockets[conn[h].stream].inbox = <<>>)
            => ciphers[conn[h].read_cipher].holder = 0

----------------------------------------------------------------------------
(* SpecLayout: connections are created, with success or without, on any    *)
(* free handle, and Positions are written and read in between.  Position    *)
(* asks current_protocol_version(), the static that every Conn::new stores  *)
(* its argument in.                                                         *)

\* Versions given to Conn::new: V1_16, the first number of New, a listed
\* protocol of the 1.14 snapshots, and V1_13
LayoutVersions == {SUPPORTED_PROTOCOLS_0, 755, 451, 404}

\* Coordinates: small ones, the edges of the fields, and one whose word is
\* the same in both layouts
LayoutCoords == {<<1, 2, 3>>, <<-33554432, 2047, -1>>, <<0, 0, 0>>}

NextLayout ==
    \/ \E h \in Handles, v \in LayoutVersions, ok \in BOOLEAN : ConnNew(h, v, ok)
    \/ \E c \in LayoutCoords : CallPosition(c[1], c[2], c[3])

SpecLayout == InitVersion /\ [][NextLayout]_vars

----------------------------------------------------------------------------
(* Claims on the layout of Position, checked under SpecLayout *)

\* The buckets from V1_14 on
FromV1_14 == {"V1_14", "V1_15", "V1_16", "New"}

\* The listed protocols
Listed == {SUPPORTED_PROTOCOLS[i] : i \in DOMAIN SUPPORTED_PROTOCOLS}

\* C32: Position is written and read in the layout from V1_14 on exactly
\* when the bucket of the current protocol version is V1_14, V1_15, V1_16 or
\* New, and in the older layout otherwise; so every listed protocol from 451
\* on gets the layout from V1_14 on.
C32_LayoutByBucket ==
    last.op = "Position" =>
        LET post == FromId(last.version) \in FromV1_14
            word == PositionWordBytes(~post, last.x, last.y, last.z)
        IN /\ last.enc = word
           /\ last.dec = PositionRead(IF post THEN 477 ELSE 404, word)
           /\ (last.version \in Listed /\ last.version >= 451) =>
                 last.enc = PositionWordBytes(FALSE, last.x, last.y, last.z)

\* C36: a Position written or read while connections are open is in the
\* layout of the protocol_version of each of them, whatever Conn::new calls
\* came in between, successful or not.
C36_LayoutOfOwnConnection ==
    [][(last' # last /\ last'.op = "Position") =>
        \A h \in Handles :
            Live(h) =>
                /\ last'.enc = PositionWrite(conn[h].protocol_version,
                                             last'.x, last'.y, last'.z)
                /\ last'.dec = PositionRead(conn[h].protocol_version, last'.enc)]_vars

----------------------------------------------------------------------------
(* Claim on the optional values, checked under SpecCodec *)

\* C33: Option<T> has no presence byte on the wire: write_to emits the
\* encoding of v for Some(v) and nothing for None, read_from reads one T and
\* gives Some of it, never None (an input without a T is an error);
\* Option<NamedTag> writes the single byte 0 for None and reads a leading 0
\* as None, taking that byte only.
C33_OptionCodecs ==
    /\ last.op = "Option" =>
          /\ last.enc = (IF last.x = {} THEN <<>>
                         ELSE VarIntWrite(CHOOSE v \in last.x : TRUE))
          /\ LET r == VarIntRead(last.enc \o last.tail)
             IN /\ last.dec.kind = r.kind
                /\ last.dec.rest = r.rest
                /\ r.kind = "Ok" => last.dec.val = {r.val}
          /\ last.x # {} => last.dec = ReadOk(last.x, last.tail)
    /\ last.op = "Option<NamedTag>" =>
          /\ last.x = {} <=> last.enc = <<0>>
          /\ last.x # {} => last.enc[1] = 10
          /\ last.dec = ReadOk(last.x, last.tail)

\* None was written as nothing and the bytes behind it were read as a Some;
\* before that, from the same state, a None named tag went out as one 0
C33_Witness ==
    /\ last.op = "Option"
    /\ last.x = {}
    /\ last.enc = <<>>
    /\ last.tail = <<0, 0>>
    /\ last.dec.kind = "Ok"
    /\ last.dec.val = {0}
    /\ last.dec.rest = <<0>>

----------------------------------------------------------------------------
(* Claim on the mod manifests of a status document, checked under SpecStatus *)

\* C37: when the status text is valid JSON and the pong was read, do_status
\* ends with Ok or with an Err and never with a panic; a modinfo or
\* forgeData that lacks a member is passed over or reported as an error.
C37_ValidStatusNeverPanics ==
    [][\A h \in Handles :
        ~(/\ pc[h] = "status_pong" /\ pc'[h] = "done"
          /\ local'[h].result = "panic"
          /\ JsonFromStr(local[h].status).valid
          /\ \E f \in StatusFrames : \E r \in {ReadWhole(h, f)} :
                /\ r.kind = "Ok"
                /\ r.packet.name = "StatusPong"
                /\ DoStatusPong(h, f))]_vars

----------------------------------------------------------------------------
(* The biome array and the length-prefixed lists: calls of their codecs,
   one after another, and the claims checked under SpecArrays *)

NextArrays ==
    \/ \E s \in Biomes3DStreams : CallBiomes3DRead(s)
    \/ \E L \in LengthTypes, data \in ElementLists, t \in Tails :
          CallLenPrefixed(L, data, t)
    \/ \E L \in LengthTypes, data \in ElementLists, t \in Tails :
          CallLenPrefixedBytes(L, data, t)

SpecArrays == InitCodec /\ [][NextArrays]_vars

\* C38: Biomes3D::read_from takes exactly 1024 big-endian i32 values, 4096
\* bytes, from the input; data[i] of the result is the i-th of them; an
\* input of fewer than 4096 bytes is an error.
C38_Biomes3DRead ==
    last.op = "Biomes3D::read_from" =>
        IF Len(last.input) < 4096
        THEN last.res.kind \notin {"Ok", "panic"}
        ELSE /\ last.res.kind = "Ok"
             /\ last.res.rest = SubSeq(last.input, 4097, Len(last.input))
             /\ Len(last.res.val) = 1024
             /\ \A i \in 1..1024 :
                   last.res.val[i] = I32Of(SubSeq(last.input, 4 * i - 3, 4 * i))

\* C39: for every length type and every element list, write_to emits a
\* length whose decoded value is the number of elements, followed by the
\* elements, and read_from on the bytes written gives the list back and
\* takes exactly those bytes.
C39_LengthMatchesElements ==
    last.op \in {"LenPrefixed", "LenPrefixedBytes"} =>
        /\ last.enc.kind = "Ok"
        /\ \E r \in {LenRead(last.L, last.enc.bytes)} :
              /\ r.kind = "Ok"
              /\ IntoLen(last.L, r.val) = Len(last.x)
              /\ r.rest = last.x
        /\ last.dec = ReadOk(last.x, last.tail)

====
